---- MODULE Spec2Model ----
(***************************************************************************)
(* Model of the class-name utilities of lib/utils (clsx, twMerge, cn, cva), *)
(* of the Tabs, Select and Input components, of the plugin sandbox and of  *)
(* the installer.                                                          *)
(* A JavaScript string is a sequence of one-character strings, so that     *)
(* split, startsWith, includes and join are computed as the code computes  *)
(* them.  A JavaScript value is a record [t, s, n, items]:                  *)
(*   t = "str"   s is the string                                           *)
(*   t = "num"   n is the number                                           *)
(*   t = "bool"  n is 1 for true, 0 for false                              *)
(*   t = "null", "undef", "fn"                                             *)
(*   t = "arr"   items is the sequence of elements                         *)
(*   t = "obj"   items is the sequence of own enumerable entries, in       *)
(*               iteration order; an entry is [t |-> "entry", s |-> key,   *)
(*               items |-> <<value>>]                                      *)
(* The result of a call is [ok, s]: ok = FALSE when the call raised.       *)
(***************************************************************************)
EXTENDS Integers, Sequences, FiniteSets, TLC

VARIABLES op, str, args, cfg, props, passed, out, prev

\* The components of the user interface, the plugin sandbox and the installer
VARIABLES tabs, doc, field, plugin, installer

ui == <<tabs, doc, field, plugin, installer>>

vars == <<op, str, args, cfg, props, passed, out, prev, tabs, doc, field, plugin, installer>>

(***************************************************************************)
(* Bounds of the explored inputs.                                          *)
(***************************************************************************)
MaxPieces == 3

MaxArgs == 3

MaxProps == 2

(***************************************************************************)
(* JavaScript values.                                                      *)
(***************************************************************************)
Str(s) == [t |-> "str", s |-> s, n |-> 0, items |-> <<>>]

Num(n) == [t |-> "num", s |-> <<>>, n |-> n, items |-> <<>>]

Bool(b) == [t |-> "bool", s |-> <<>>, n |-> IF b THEN 1 ELSE 0, items |-> <<>>]

Null == [t |-> "null", s |-> <<>>, n |-> 0, items |-> <<>>]

Undefined == [t |-> "undef", s |-> <<>>, n |-> 0, items |-> <<>>]

Arr(xs) == [t |-> "arr", s |-> <<>>, n |-> 0, items |-> xs]

Obj(es) == [t |-> "obj", s |-> <<>>, n |-> 0, items |-> es]

Entry(k, v) == [t |-> "entry", s |-> k, n |-> 0, items |-> <<v>>]

EntryValue(e) == e.items[1]

\* ToBoolean: what `!input` and `if (x)` test.
Truthy(v) ==
  CASE v.t = "str" -> v.s # <<>>
    [] v.t = "num" -> v.n # 0
    [] v.t = "bool" -> v.n = 1
    [] v.t = "null" -> FALSE
    [] v.t = "undef" -> FALSE
    [] OTHER -> TRUE

Ok(s) == [ok |-> TRUE, s |-> s]

Throw == [ok |-> FALSE, s |-> <<>>]

(***************************************************************************)
(* String primitives.                                                      *)
(***************************************************************************)
SP == " "

TAB == "\t"

\* String.prototype.startsWith
startsWith(s, key) == Len(key) <= Len(s) /\ SubSeq(s, 1, Len(key)) = key

\* Array.prototype.includes
includes(seq, x) == \E i \in 1..Len(seq) : seq[i] = x

\* Array.prototype.join(' ')
RECURSIVE join(_)
join(parts) ==
  IF parts = <<>> THEN <<>>
  ELSE IF Len(parts) = 1 THEN parts[1]
  ELSE parts[1] \o <<SP>> \o join(Tail(parts))

\* String.prototype.split(' '): the fragments between single space
\* characters, empty fragments included.
RECURSIVE splitFrom(_, _)
splitFrom(s, cur) ==
  IF s = <<>> THEN <<cur>>
  ELSE IF Head(s) = SP THEN <<cur>> \o splitFrom(Tail(s), <<>>)
  ELSE splitFrom(Tail(s), Append(cur, Head(s)))

split(s) == splitFrom(s, <<>>)

\* Array.prototype.filter(Boolean) on an array of strings
filterBoolean(parts) == SelectSeq(parts, LAMBDA p : p # <<>>)

(***************************************************************************)
(* clsx                                                                    *)
(***************************************************************************)
\* A variant of objectKeys that pushes every key, whatever its value.
objectKeysAll(entries) == [i \in 1..Len(entries) |-> entries[i].s]

RECURSIVE clsxClasses(_, _)
RECURSIVE objectKeys(_)

\* the for..in loop over a mapping: the keys whose value is truthy
objectKeys(entries) ==
  IF entries = <<>> THEN <<>>
  ELSE (IF Truthy(EntryValue(Head(entries))) THEN <<Head(entries).s>> ELSE <<>>)
       \o objectKeys(Tail(entries))

\* the loop of clsx over its inputs, `classes` being the array built so far
clsxClasses(inputs, classes) ==
  IF inputs = <<>> THEN classes
  ELSE LET input == Head(inputs)
           rest == Tail(inputs)
       IN IF ~Truthy(input) THEN clsxClasses(rest, classes)
          ELSE IF input.t = "str" THEN clsxClasses(rest, Append(classes, input.s))
          ELSE IF input.t = "arr" THEN
            LET inner == join(clsxClasses(input.items, <<>>))
            IN clsxClasses(rest, IF inner # <<>> THEN Append(classes, inner) ELSE classes)
          ELSE IF input.t = "obj" THEN
            clsxClasses(rest, classes \o objectKeys(input.items))
          ELSE clsxClasses(rest, classes)

clsx(inputs) == join(clsxClasses(inputs, <<>>))

(***************************************************************************)
(* twMerge                                                                 *)
(***************************************************************************)
\* The conflictGroups object literal, as Object.entries lists it: every key
\* is a non-numeric string, so the entries come in declaration order.
Grp(key, group) == [key |-> key, group |-> group]

DisplayGroup ==
  << <<"b","l","o","c","k">>, <<"i","n","l","i","n","e">>,
     <<"i","n","l","i","n","e","-","b","l","o","c","k">>, <<"f","l","e","x">>,
     <<"i","n","l","i","n","e","-","f","l","e","x">>, <<"g","r","i","d">>,
     <<"h","i","d","d","e","n">> >>

conflictGroups ==
  << Grp(<<"p","-">>, << <<"p","-">>, <<"p","x","-">>, <<"p","y","-">>, <<"p","t","-">>,
                         <<"p","r","-">>, <<"p","b","-">>, <<"p","l","-">> >>),
     Grp(<<"p","x","-">>, << <<"p","-">>, <<"p","x","-">>, <<"p","l","-">>, <<"p","r","-">> >>),
     Grp(<<"p","y","-">>, << <<"p","-">>, <<"p","y","-">>, <<"p","t","-">>, <<"p","b","-">> >>),
     Grp(<<"p","t","-">>, << <<"p","-">>, <<"p","y","-">>, <<"p","t","-">> >>),
     Grp(<<"p","r","-">>, << <<"p","-">>, <<"p","x","-">>, <<"p","r","-">> >>),
     Grp(<<"p","b","-">>, << <<"p","-">>, <<"p","y","-">>, <<"p","b","-">> >>),
     Grp(<<"p","l","-">>, << <<"p","-">>, <<"p","x","-">>, <<"p","l","-">> >>),
     Grp(<<"m","-">>, << <<"m","-">>, <<"m","x","-">>, <<"m","y","-">>, <<"m","t","-">>,
                         <<"m","r","-">>, <<"m","b","-">>, <<"m","l","-">> >>),
     Grp(<<"m","x","-">>, << <<"m","-">>, <<"m","x","-">>, <<"m","l","-">>, <<"m","r","-">> >>),
     Grp(<<"m","y","-">>, << <<"m","-">>, <<"m","y","-">>, <<"m","t","-">>, <<"m","b","-">> >>),
     Grp(<<"m","t","-">>, << <<"m","-">>, <<"m","y","-">>, <<"m","t","-">> >>),
     Grp(<<"m","r","-">>, << <<"m","-">>, <<"m","x","-">>, <<"m","r","-">> >>),
     Grp(<<"m","b","-">>, << <<"m","-">>, <<"m","y","-">>, <<"m","b","-">> >>),
     Grp(<<"m","l","-">>, << <<"m","-">>, <<"m","x","-">>, <<"m","l","-">> >>),
     Grp(<<"w","-">>, << <<"w","-">> >>),
     Grp(<<"h","-">>, << <<"h","-">> >>),
     Grp(<<"b","g","-">>, << <<"b","g","-">> >>),
     Grp(<<"t","e","x","t","-">>, << <<"t","e","x","t","-">> >>),
     Grp(<<"b","o","r","d","e","r","-">>, << <<"b","o","r","d","e","r","-">> >>),
     Grp(<<"b","l","o","c","k">>, DisplayGroup),
     Grp(<<"i","n","l","i","n","e">>, DisplayGroup),
     Grp(<<"f","l","e","x">>, DisplayGroup),
     Grp(<<"g","r","i","d">>, DisplayGroup),
     Grp(<<"h","i","d","d","e","n">>, DisplayGroup) >>

\* A variant of groupMatches that reads the group as a list of prefixes.
groupMatchesListedPrefix(className, entry) ==
  \E i \in 1..Len(entry.group) : startsWith(className, entry.group[i])

\* The test of the inner loop for one entry of conflictGroups.
groupMatches(className, entry) ==
  startsWith(className, entry.key) \/ includes(entry.group, className)

\* A variant of conflictKey that starts from an empty key instead of the
\* class name.
conflictKeyEmptyDefault(className) ==
  LET hits == { i \in 1..Len(conflictGroups) : groupMatches(className, conflictGroups[i]) }
  IN IF hits = {} THEN <<>>
     ELSE conflictGroups[CHOOSE i \in hits : \A j \in hits : i <= j].key

\* The inner loop: the key of the first entry that matches, else the class
\* name itself.
conflictKey(className) ==
  LET hits == { i \in 1..Len(conflictGroups) : groupMatches(className, conflictGroups[i]) }
  IN IF hits = {} THEN className
     ELSE conflictGroups[CHOOSE i \in hits : \A j \in hits : i <= j].key

\* A variant of mapSet that keeps the first value stored under a key.
mapSetKeepFirst(m, k, v) ==
  IF \E i \in 1..Len(m) : m[i].k = k THEN m ELSE Append(m, [k |-> k, v |-> v])

\* A variant of mapSet that deletes a stored key and inserts it again at the
\* end.
mapSetMoveToEnd(m, k, v) ==
  Append(SelectSeq(m, LAMBDA e : e.k # k), [k |-> k, v |-> v])

\* Map.prototype.set on a Map kept as the sequence of its [k, v] entries in
\* insertion order: an existing key keeps its position and gets the new value.
mapSet(m, k, v) ==
  IF \E i \in 1..Len(m) : m[i].k = k
  THEN [i \in 1..Len(m) |-> IF m[i].k = k THEN [k |-> k, v |-> v] ELSE m[i]]
  ELSE Append(m, [k |-> k, v |-> v])

\* A variant of mapValues that lists the values last-inserted first.
mapValuesReversed(m) == [i \in 1..Len(m) |-> m[Len(m) + 1 - i].v]

\* Array.from(classMap.values())
mapValues(m) == [i \in 1..Len(m) |-> m[i].v]

\* The outer loop over the classes, classMap being the Map built so far.
RECURSIVE classMapOf(_, _)
classMapOf(classes, classMap) ==
  IF classes = <<>> THEN classMap
  ELSE classMapOf(Tail(classes), mapSet(classMap, conflictKey(Head(classes)), Head(classes)))

\* classNames.split(' ').filter(Boolean)
tokens(s) == filterBoolean(split(s))

\* twMerge of a string
twMergeStr(s) == join(mapValues(classMapOf(tokens(s), <<>>)))

\* twMerge of any value: a falsy value gives '', a truthy value that is not
\* a string has no split method and the call raises a TypeError.
twMerge(classNames) ==
  IF ~Truthy(classNames) THEN Ok(<<>>)
  ELSE IF classNames.t # "str" THEN Throw
  ELSE Ok(twMergeStr(classNames.s))

\* cn(...inputs)
cn(inputs) == twMerge(Str(clsx(inputs)))

(***************************************************************************)
(* The standalone bundle (shadcn-standalone.js) carries its own clsx,      *)
(* twMerge and cn.  Its clsx and the loops of its twMerge are those of     *)
(* lib/utils line for line; its conflictGroups literal is its own.         *)
(***************************************************************************)
conflictGroupsStandalone ==
  << Grp(<<"p","-">>, << <<"p","-">>, <<"p","x","-">>, <<"p","y","-">>, <<"p","t","-">>,
                         <<"p","r","-">>, <<"p","b","-">>, <<"p","l","-">> >>),
     Grp(<<"p","x","-">>, << <<"p","-">>, <<"p","x","-">>, <<"p","l","-">>, <<"p","r","-">> >>),
     Grp(<<"p","y","-">>, << <<"p","-">>, <<"p","y","-">>, <<"p","t","-">>, <<"p","b","-">> >>),
     Grp(<<"m","-">>, << <<"m","-">>, <<"m","x","-">>, <<"m","y","-">>, <<"m","t","-">>,
                         <<"m","r","-">>, <<"m","b","-">>, <<"m","l","-">> >>),
     Grp(<<"w","-">>, << <<"w","-">> >>),
     Grp(<<"h","-">>, << <<"h","-">> >>),
     Grp(<<"b","g","-">>, << <<"b","g","-">> >>),
     Grp(<<"t","e","x","t","-">>, << <<"t","e","x","t","-">> >>),
     Grp(<<"b","o","r","d","e","r","-">>, << <<"b","o","r","d","e","r","-">> >>) >>

\* The inner loop of the bundle's twMerge
conflictKeyStandalone(className) ==
  LET hits == { i \in 1..Len(conflictGroupsStandalone) :
                  groupMatches(className, conflictGroupsStandalone[i]) }
  IN IF hits = {} THEN className
     ELSE conflictGroupsStandalone[CHOOSE i \in hits : \A j \in hits : i <= j].key

\* The outer loop of the bundle's twMerge
RECURSIVE classMapOfStandalone(_, _)
classMapOfStandalone(classes, classMap) ==
  IF classes = <<>> THEN classMap
  ELSE classMapOfStandalone(Tail(classes),
                            mapSet(classMap, conflictKeyStandalone(Head(classes)), Head(classes)))

\* twMerge of the bundle
twMergeStandalone(classNames) ==
  IF ~Truthy(classNames) THEN Ok(<<>>)
  ELSE IF classNames.t # "str" THEN Throw
  ELSE Ok(join(mapValues(classMapOfStandalone(tokens(classNames.s), <<>>))))

\* cn of the bundle
cnStandalone(inputs) == twMergeStandalone(Str(clsx(inputs)))

(***************************************************************************)
(* cva                                                                     *)
(***************************************************************************)
Digits == <<"0","1","2","3","4","5","6","7","8","9">>

isIndexKey(k) == Len(k) = 1 /\ \E i \in 1..10 : Digits[i] = k[1]

indexOf(k) == CHOOSE i \in 1..10 : Digits[i] = k[1]

\* obj[key] for a key the prototypes do not define: the own property of an
\* object, undefined on a primitive or a function.
getProp(v, key) ==
  IF v.t = "obj" /\ \E i \in 1..Len(v.items) : v.items[i].s = key
  THEN EntryValue(v.items[CHOOSE i \in 1..Len(v.items) : v.items[i].s = key])
  ELSE Undefined

\* ToPropertyKey of the values used as a variant value
toPropertyKey(v) ==
  CASE v.t = "str" -> v.s
    [] v.t = "undef" -> <<"u","n","d","e","f","i","n","e","d">>
    [] v.t = "null" -> <<"n","u","l","l">>
    [] v.t = "bool" -> IF v.n = 1 THEN <<"t","r","u","e">> ELSE <<"f","a","l","s","e">>
    [] v.t = "num" -> <<Digits[v.n + 1]>>
    [] OTHER -> <<"[","o","b","j","e","c","t","]">>

\* The own enumerable properties an object spread copies from a value.
ownEntries(v) ==
  CASE v.t = "obj" -> v.items
    [] v.t = "str" -> [i \in 1..Len(v.s) |-> Entry(<<Digits[i]>>, Str(<<v.s[i]>>))]
    [] v.t = "arr" -> [i \in 1..Len(v.items) |-> Entry(<<Digits[i]>>, v.items[i])]
    [] OTHER -> <<>>

\* Defining one property: an existing key keeps its place.
propSet(es, k, v) ==
  IF \E i \in 1..Len(es) : es[i].s = k
  THEN [i \in 1..Len(es) |-> IF es[i].s = k THEN Entry(k, v) ELSE es[i]]
  ELSE Append(es, Entry(k, v))

RECURSIVE spreadInto(_, _)
spreadInto(target, src) ==
  IF src = <<>> THEN target
  ELSE spreadInto(propSet(target, Head(src).s, EntryValue(Head(src))), Tail(src))

RECURSIVE sortIndexEntries(_)
sortIndexEntries(es) ==
  IF es = <<>> THEN <<>>
  ELSE LET m == CHOOSE i \in 1..Len(es) : \A j \in 1..Len(es) : indexOf(es[i].s) <= indexOf(es[j].s)
       IN <<es[m]>> \o sortIndexEntries(SubSeq(es, 1, m - 1) \o SubSeq(es, m + 1, Len(es)))

\* Object.entries: integer keys in ascending order, then the string keys in
\* the order they were created.
objectEntries(es) ==
  sortIndexEntries(SelectSeq(es, LAMBDA e : isIndexKey(e.s)))
    \o SelectSeq(es, LAMBDA e : ~isIndexKey(e.s))

\* A variant of mergedPropsOf that spreads the defaults over the props.
mergedPropsDefaultsLast(defaultVariants, p) ==
  spreadInto(spreadInto(<<>>, ownEntries(p)), ownEntries(defaultVariants))

\* const mergedProps = { ...defaultVariants, ...props }
mergedPropsOf(defaultVariants, p) ==
  spreadInto(spreadInto(<<>>, ownEntries(defaultVariants)), ownEntries(p))

\* The loop over Object.entries(mergedProps), `classes` being the
\* accumulator.
RECURSIVE variantClasses(_, _, _)
variantClasses(variants, entries, classes) ==
  IF entries = <<>> THEN classes
  ELSE LET variantKey == Head(entries).s
           variantValue == EntryValue(Head(entries))
           axis == getProp(variants, variantKey)
           cls == getProp(axis, toPropertyKey(variantValue))
       IN variantClasses(variants, Tail(entries),
            IF Truthy(axis) /\ Truthy(cls) THEN Append(classes, cls) ELSE classes)

className == <<"c","l","a","s","s","N","a","m","e">>

\* The defaults of the parameters and of the destructuring apply to
\* undefined only.
orEmpty(v) == IF v.t = "undef" THEN Obj(<<>>) ELSE v

\* Does the function returned by cva(c.base, c) raise on p?  Reading a
\* property of null raises a TypeError: variants[variantKey] when variants is
\* null and the loop runs, props.className when props is null.
cvaRaises(c, p) ==
  \/ /\ c.variants.t = "null"
     /\ mergedPropsOf(orEmpty(c.defaultVariants), orEmpty(p)) # <<>>
  \/ p.t = "null"

\* A variant of cvaClasses that pushes the className override before the
\* variant classes.
cvaClassesOverrideFirst(c, p) ==
  LET P == orEmpty(p)
      mergedProps == mergedPropsOf(orEmpty(c.defaultVariants), P)
      start == IF Truthy(getProp(P, className))
               THEN <<c.base, getProp(P, className)>>
               ELSE <<c.base>>
  IN variantClasses(orEmpty(c.variants), objectEntries(mergedProps), start)

\* The accumulator `classes` the returned function passes to cn.
cvaClasses(c, p) ==
  LET P == orEmpty(p)
      mergedProps == mergedPropsOf(orEmpty(c.defaultVariants), P)
      withVariants == variantClasses(orEmpty(c.variants), objectEntries(mergedProps), <<c.base>>)
  IN IF Truthy(getProp(P, className))
     THEN Append(withVariants, getProp(P, className))
     ELSE withVariants

\* cva(c.base, c)(p)
cva(c, p) == IF cvaRaises(c, p) THEN Throw ELSE cn(cvaClasses(c, p))

(***************************************************************************)
(* The explored inputs.                                                    *)
(***************************************************************************)
SeqsUpTo(S, n) == UNION { [1..k -> S] : k \in 0..n }

\* Fragments a class string is put together from, joined by one space: an
\* empty fragment gives a leading, trailing or doubled space.
Fragments ==
  { <<>>, <<"p","-","4">>, <<"p","-","2">>, <<"p","x","-","6">>, <<"p","x","-">>, <<"p","t","-","1">>, <<"m","l","-","1">>, <<"b","g","-","a">>,
    <<"f","l","e","x">>, <<"b","l","o","c","k">>, <<"i","n","l","i","n","e">>, <<"f","l","e","x","-","c","o","l">>, <<"f","l","e","x","-","1">>, <<"i","n","l","i","n","e","-","g","r","i","d">>,
    <<"g","r","i","d","-","c","o","l","s","-","2">>, <<"f","o","o">>, <<"b","a","r">>, <<"f","o","o",TAB>>, <<"p","-","4",TAB,"p","-","2">> }

ClassStrings == { join(fs) : fs \in SeqsUpTo(Fragments, MaxPieces) }

Fn == [t |-> "fn", s |-> <<>>, n |-> 0, items |-> <<>>]

\* Values that are not strings, as twMerge may be handed them.
NonStrings ==
  { Null, Undefined, Bool(FALSE), Bool(TRUE), Num(0), Num(1), Fn,
    Arr(<<>>), Arr(<<Str(<<"f","o","o">>)>>), Obj(<<>>) }

TwMergeInputs == { Str(s) : s \in ClassStrings } \cup NonStrings

\* Arguments of cn.
CnValues ==
  { Str(<<"f","o","o">>), Str(<<"b","a","r">>), Str(<<"p","-","4">>), Str(<<"p","-","2">>), Str(<<"p","x","-","6">>),
    Str(<<"f","l","e","x","-","c","o","l">>), Str(<<"f","l","e","x","-","1">>), Str(<<SP,"f","o","o",SP,SP,"b","a","r",SP>>), Str(<<"f","o","o",TAB>>),
    Str(<<>>), Null, Undefined, Bool(FALSE), Num(0),
    Bool(TRUE), Num(1), Fn,
    Arr(<<>>), Arr(<<Str(<<"f","o","o">>), Null, Arr(<<Str(<<"p","-","4">>)>>)>>),
    Obj(<<Entry(<<"a","c","t","i","v","e">>, Bool(TRUE)), Entry(<<"h","i","d","d","e","n">>, Bool(FALSE))>>),
    Obj(<<Entry(<<"h","i","d","d","e","n">>, Num(1)), Entry(<<"b","l","o","c","k">>, Str(<<"x">>))>>),
    Obj(<<Entry(<<"b","a","r">>, Num(0)), Entry(<<"p","-","4">>, Fn), Entry(<<"f","o","o">>, Str(<<"x">>))>>) }

CnInputs == SeqsUpTo(CnValues, MaxArgs)

(***************************************************************************)
(* Tabs (components/ui/tabs.js).  The component is a record: the state of  *)
(* the root (_tabsState.activeTab), the triggers and panels in document    *)
(* order with the attributes the code writes, the trigger holding the      *)
(* focus, the tabchange events the last operation dispatched, and the last *)
(* operation itself.                                                       *)
(***************************************************************************)
MaxTabs == 2

TabNames == <<"tab1", "tab2", "tab3", "tab4", "tab5">>

NoTabOp == [name |-> "none", key |-> "", target |-> 0, before |-> ""]

NoTabs ==
  [built |-> FALSE, attached |-> FALSE, defaultValue |-> "", activeTab |-> "",
   triggers |-> <<>>, panels |-> <<>>, focus |-> "", events |-> <<>>, last |-> NoTabOp]

\* createTabs: _tabsState.activeTab starts as defaultValue ('' when absent)
createTabs(defaultValue) ==
  [NoTabs EXCEPT !.built = TRUE, !.defaultValue = defaultValue, !.activeTab = defaultValue]

\* createTabsTrigger: the click listener keeps the `disabled` of the options
\* (closureDisabled); `selected` stands for aria-selected, tabindex and
\* data-state, which are always written together.
createTabsTrigger(value, disabled) ==
  [value |-> value, disabled |-> disabled, closureDisabled |-> disabled, selected |-> FALSE]

\* createTabsContent: a new panel is hidden
createTabsContent(value) ==
  [value |-> value, ariaHidden |-> TRUE, display |-> "none"]

\* trigger.focus() moves the focus only to a focusable element: one that is
\* in the document and not disabled.
focusAfter(T, value) ==
  IF T.attached /\ \E i \in 1..Len(T.triggers) :
                      T.triggers[i].value = value /\ ~T.triggers[i].disabled
  THEN value ELSE T.focus

\* setActiveTab, from "Update state" to the end of "Update all content
\* panels"
updateTabs(T, value) ==
  [T EXCEPT !.activeTab = value,
            !.triggers = [i \in 1..Len(T.triggers) |->
                            [T.triggers[i] EXCEPT !.selected = (T.triggers[i].value = value)]],
            !.focus = focusAfter(T, value),
            !.panels = [i \in 1..Len(T.panels) |->
                          [T.panels[i] EXCEPT
                             !.ariaHidden = ~(T.panels[i].value = value),
                             !.display = IF T.panels[i].value = value THEN "" ELSE "none"]]]

\* What a tabchange listener finds when it is called: the active value of
\* the state, the values of the selected triggers and of the shown panels
tabsSeen(T) ==
  [activeTab |-> T.activeTab,
   selected |-> { T.triggers[i].value : i \in { j \in 1..Len(T.triggers) : T.triggers[j].selected } },
   shown |-> { T.panels[i].value :
                 i \in { j \in 1..Len(T.panels) : T.panels[j].display = "" /\ ~T.panels[j].ariaHidden } }]

\* tabsRoot.dispatchEvent(new CustomEvent('tabchange', { detail })): the
\* listeners run at once, on the component as it is at that moment
dispatchTabChange(T, value, previousValue) ==
  [T EXCEPT !.events = Append(T.events, [value |-> value, previousValue |-> previousValue,
                                         seen |-> tabsSeen(T)])]

\* setActiveTab with the event dispatched before the updates
setActiveTabDispatchFirst(T, value) ==
  updateTabs(dispatchTabChange(T, value, T.activeTab), value)

\* setActiveTab(tabsRoot, value)
setActiveTab(T, value) ==
  dispatchTabChange(updateTabs(T, value), value, T.activeTab)

\* Tabs.addTrigger
addTrigger(T, value, disabled) ==
  LET T1 == [T EXCEPT !.triggers = Append(T.triggers, createTabsTrigger(value, disabled))]
  IN IF Len(T1.triggers) = 1 /\ T1.activeTab = "" THEN setActiveTab(T1, value) ELSE T1

\* Tabs.addContent
addContent(T, value) == [T EXCEPT !.panels = Append(T.panels, createTabsContent(value))]

\* Tabs.addTab: the trigger first, then the panel
addTab(T, value, disabled) == addContent(addTrigger(T, value, disabled), value)

\* Tabs.getActiveTab
getActiveTab(T) == T.activeTab

\* Tabs.setTabDisabled: the first trigger with the value gets the property
setTabDisabled(T, value, disabled) ==
  LET hits == { i \in 1..Len(T.triggers) : T.triggers[i].value = value }
  IN IF hits = {} THEN T
     ELSE LET i == CHOOSE h \in hits : \A g \in hits : h <= g
          IN [T EXCEPT !.triggers[i].disabled = disabled]

\* The click listener of trigger i
clickTrigger(T, i) ==
  IF ~T.triggers[i].closureDisabled THEN setActiveTab(T, T.triggers[i].value) ELSE T

\* querySelectorAll('[role="tab"]:not([disabled])'), as indices of T.triggers
enabledTriggers(T) ==
  SelectSeq([i \in 1..Len(T.triggers) |-> i], LAMBDA i : ~T.triggers[i].disabled)

\* Array.prototype.indexOf, zero-based, -1 when absent
indexOfTrigger(seq, i) ==
  IF \E k \in 1..Len(seq) : seq[k] = i
  THEN (CHOOSE k \in 1..Len(seq) : seq[k] = i) - 1
  ELSE -1

TabKeys == { "ArrowLeft", "ArrowUp", "ArrowRight", "ArrowDown", "Home", "End", "Enter", " ", "a" }

\* handleTabKeydown with trigger i as e.currentTarget
handleTabKeydown(T, i, key) ==
  LET trs == enabledTriggers(T)
      currentIndex == indexOfTrigger(trs, i)
      nextIndex ==
        IF key \in { "ArrowLeft", "ArrowUp" }
        THEN IF currentIndex > 0 THEN currentIndex - 1 ELSE Len(trs) - 1
        ELSE IF key \in { "ArrowRight", "ArrowDown" }
        THEN IF currentIndex < Len(trs) - 1 THEN currentIndex + 1 ELSE 0
        ELSE IF key = "Home" THEN 0
        ELSE Len(trs) - 1
  IN IF key \in { "Enter", " " } THEN setActiveTab(T, T.triggers[i].value)
     ELSE IF key \notin { "ArrowLeft", "ArrowUp", "ArrowRight", "ArrowDown", "Home", "End" } THEN T
     ELSE IF nextIndex >= 0 /\ nextIndex < Len(trs)
     THEN setActiveTab(T, T.triggers[trs[nextIndex + 1]].value)
     ELSE T

(***************************************************************************)
(* Select (select.js).  The document holds the selects in document order,  *)
(* the two listeners openSelect registers on it, the number of             *)
(* setTimeout(..., 0) callbacks of openSelect not yet run, the element     *)
(* holding the focus, the valuechange events the last operation            *)
(* dispatched, and the last operation itself.  A select root is a record   *)
(* of its _selectState and of the attributes the code reads and writes.    *)
(***************************************************************************)
MaxSelects == 1

MaxTimers == 2

MaxSearch == 2

SelectOrder == <<"s1", "s2">>

SelectIds == { SelectOrder[i] : i \in 1..Len(SelectOrder) }

\* createSelectItem: `accent` is the class bg-accent (with
\* text-accent-foreground), `selected` is aria-selected (with the check icon)
createSelectItem(value, text, disabled) ==
  [value |-> value, text |-> text, disabled |-> disabled, accent |-> FALSE, selected |-> FALSE]

\* The items every select is given
SelectItems ==
  << createSelectItem("apple", <<"A","p","p","l","e">>, FALSE),
     createSelectItem("avocado", <<"A","v","o","c","a","d","o">>, TRUE),
     createSelectItem("banana", <<"B","a","n","a","n","a">>, FALSE),
     createSelectItem("blueberry", <<"B","l","u","e","b","e","r","r","y">>, FALSE) >>

NoSelect ==
  [built |-> FALSE, rootExpanded |-> FALSE, disabled |-> FALSE, triggerDisabled |-> FALSE,
   isOpen |-> FALSE, expanded |-> FALSE, display |-> "none", value |-> "",
   searchTerm |-> <<>>, searchTimeout |-> FALSE, items |-> <<>>]

NoFocus == [select |-> "", part |-> "body", item |-> 0]

NoSelectOp == [name |-> "none", key |-> "", target |-> "", accent |-> 0, searchTerm |-> <<>>]

NoDocument ==
  [roots |-> [s \in SelectIds |-> NoSelect], onClick |-> FALSE, onKeydown |-> FALSE,
   timers |-> 0, focus |-> NoFocus, events |-> <<>>, last |-> NoSelectOp]

\* new Select({ disabled, attributes }).addTrigger().addContent() followed
\* by addItem for each of SelectItems; rootExpanded says that the
\* attributes of the root hold aria-expanded="true".  createSelectTrigger
\* writes aria-expanded="false" on the trigger, takes no disabled option
\* and so leaves the button enabled, and createSelectContent hides the
\* list.
createSelect(disabled, rootExpanded) ==
  [NoSelect EXCEPT !.built = TRUE, !.rootExpanded = rootExpanded, !.disabled = disabled,
                   !.triggerDisabled = FALSE, !.items = SelectItems]

\* querySelectorAll('[role="option"]:not([data-disabled])'), as indices
enabledItems(R) ==
  SelectSeq([i \in 1..Len(R.items) |-> i], LAMBDA i : ~R.items[i].disabled)

\* querySelector('[role="option"].bg-accent'): the first such item, 0 if none
accentItem(R) ==
  IF \E i \in 1..Len(R.items) : R.items[i].accent
  THEN CHOOSE i \in 1..Len(R.items) :
         R.items[i].accent /\ \A j \in 1..(i - 1) : ~R.items[j].accent
  ELSE 0

\* openSelect(selectRoot)
openSelect(D, s) ==
  LET R == D.roots[s]
      en == enabledItems(R)
  IN IF R.disabled \/ R.isOpen THEN D
     ELSE [D EXCEPT !.roots[s] = [R EXCEPT !.isOpen = TRUE, !.expanded = TRUE, !.display = "block"],
                    !.focus = IF en # <<>> THEN [select |-> s, part |-> "item", item |-> en[1]]
                              ELSE D.focus,
                    !.timers = D.timers + 1]

\* The callback openSelect hands to setTimeout
openSelectTimeout(D) ==
  [D EXCEPT !.timers = D.timers - 1, !.onClick = TRUE, !.onKeydown = TRUE]

\* trigger.focus() of closeSelect: a disabled button takes no focus, and
\* the item of the list just hidden loses it
focusAfterClose(D, s) ==
  IF ~D.roots[s].triggerDisabled THEN [select |-> s, part |-> "trigger", item |-> 0]
  ELSE IF D.focus.select = s /\ D.focus.part = "item" THEN NoFocus
  ELSE D.focus

\* closeSelect(selectRoot)
closeSelect(D, s) ==
  LET R == D.roots[s]
  IN IF ~R.isOpen THEN D
     ELSE [D EXCEPT !.roots[s] = [R EXCEPT !.isOpen = FALSE, !.searchTerm = <<>>,
                                           !.expanded = FALSE, !.display = "none"],
                    !.focus = focusAfterClose(D, s),
                    !.onClick = FALSE,
                    !.onKeydown = FALSE]

\* toggleSelect(selectRoot)
toggleSelect(D, s) ==
  IF D.roots[s].isOpen THEN closeSelect(D, s) ELSE openSelect(D, s)

\* The click listener createSelectTrigger puts on the trigger
triggerClick(D, s) ==
  IF ~D.roots[s].disabled THEN toggleSelect(D, s) ELSE D

\* handleTriggerKeydown(e) on the trigger of select s
handleTriggerKeydown(D, s, key) ==
  IF key \in { "Enter", " ", "ArrowDown", "ArrowUp" } THEN openSelect(D, s)
  ELSE IF key = "Escape" THEN closeSelect(D, s)
  ELSE D

\* Select.setDisabled(disabled)
setDisabled(D, s, disabled) ==
  [D EXCEPT !.roots[s].disabled = disabled, !.roots[s].triggerDisabled = disabled]

\* handleOutsideClick(e) for a click outside every select root: closeSelect
\* on each open select, in document order
handleOutsideClick(D) ==
  closeSelect(closeSelect(D, SelectOrder[1]), SelectOrder[2])

\* selectValue(selectRoot, value); the select has no name, so no hidden
\* input is made
selectValue(D, s, value) ==
  LET R == D.roots[s]
  IN [D EXCEPT !.roots[s] = [R EXCEPT !.value = value,
                                      !.items = [i \in 1..Len(R.items) |->
                                                   [R.items[i] EXCEPT !.selected = (R.items[i].value = value)]]],
               !.events = Append(D.events, [select |-> s, value |-> value, previousValue |-> R.value])]

\* The click listener createSelectItem puts on item i of select s
itemClick(D, s, i) ==
  IF ~D.roots[s].items[i].disabled
  THEN closeSelect(selectValue(D, s, D.roots[s].items[i].value), s)
  ELSE D

\* String.prototype.toLowerCase on the letters the texts and keys use
UpperChars == <<"A", "B", "C", "D", "E", "F", "L">>

LowerChars == <<"a", "b", "c", "d", "e", "f", "l">>

lowerChar(c) ==
  IF \E i \in 1..Len(UpperChars) : UpperChars[i] = c
  THEN LowerChars[CHOOSE i \in 1..Len(UpperChars) : UpperChars[i] = c]
  ELSE c

toLowerCase(s) == [i \in 1..Len(s) |-> lowerChar(s[i])]

\* classList.remove('bg-accent', ...) on the not disabled items, then
\* classList.add on item k
moveAccent(R, k) ==
  [R EXCEPT !.items = [i \in 1..Len(R.items) |->
                         [R.items[i] EXCEPT !.accent = (i = k) \/ (R.items[i].disabled /\ R.items[i].accent)]]]

\* The keys whose e.key has length 1
SingleCharKeys == { "a", "B", "l", " " }

SelectKeys ==
  SingleCharKeys \cup { "ArrowDown", "ArrowUp", "Home", "End", "Enter", "Escape", "Tab" }

\* handleTypeAhead(selectRoot, key)
handleTypeAhead(D, s, key) ==
  LET R == D.roots[s]
      term == R.searchTerm \o toLowerCase(<<key>>)
      en == enabledItems(R)
      hits == { k \in 1..Len(en) : startsWith(toLowerCase(R.items[en[k]].text), term) }
      R1 == [R EXCEPT !.searchTerm = term, !.searchTimeout = TRUE]
  IN [D EXCEPT !.roots[s] =
        IF hits = {} THEN R1
        ELSE moveAccent(R1, en[CHOOSE k \in hits : \A h \in hits : k <= h])]

\* The callback handleTypeAhead hands to setTimeout
searchTimeoutFires(D, s) ==
  [D EXCEPT !.roots[s].searchTerm = <<>>, !.roots[s].searchTimeout = FALSE]

\* document.querySelector('.select-root[aria-expanded="true"]'): the first
\* select root of the document carrying the attribute, "" if none.  The
\* code writes aria-expanded on the trigger only.
expandedRoot(D) ==
  LET hits == { i \in 1..Len(SelectOrder) :
                  D.roots[SelectOrder[i]].built /\ D.roots[SelectOrder[i]].rootExpanded }
  IN IF hits = {} THEN "" ELSE SelectOrder[CHOOSE i \in hits : \A h \in hits : i <= h]

\* handleSelectKeydown(e)
handleSelectKeydown(D, key) ==
  LET s == expandedRoot(D)
  IN IF s = "" THEN D
     ELSE
       LET R == D.roots[s]
           items == enabledItems(R)
           currentItem == accentItem(R)
           currentIndex == IF \E k \in 1..Len(items) : items[k] = currentItem
                           THEN (CHOOSE k \in 1..Len(items) : items[k] = currentItem) - 1
                           ELSE -1
           nextIndex ==
             IF key = "ArrowDown"
             THEN IF currentIndex < Len(items) - 1 THEN currentIndex + 1 ELSE 0
             ELSE IF key = "ArrowUp"
             THEN IF currentIndex > 0 THEN currentIndex - 1 ELSE Len(items) - 1
             ELSE IF key = "Home" THEN 0
             ELSE Len(items) - 1
       IN IF key \in { "Enter", " " }
          THEN IF currentItem # 0
               THEN closeSelect(selectValue(D, s, R.items[currentItem].value), s)
               ELSE D
          ELSE IF key = "Escape" THEN closeSelect(D, s)
          ELSE IF key \notin { "ArrowDown", "ArrowUp", "Home", "End" }
          THEN IF key \in SingleCharKeys THEN handleTypeAhead(D, s, key) ELSE D
          ELSE IF nextIndex >= 0 /\ nextIndex < Len(items)
          THEN [D EXCEPT !.roots[s] = moveAccent(R, items[nextIndex + 1])]
          ELSE D

(***************************************************************************)
(* Input (input.js).  The record holds the value of the element, whether   *)
(* the element has a parent, the validators in registration order, the     *)
(* error message of the instance, the border-destructive class, the        *)
(* .input-error element of the parent and its text, and, of the last       *)
(* validate(), the validators called and what it returned.                 *)
(***************************************************************************)
MaxValidators == 2

\* The validators of the explored inputs: each is a function of the value
ValidatorKinds == { "required", "minLength", "length", "emptyMessage", "nothing" }

MinLength == 3

\* validator(value)
applyValidator(kind, value) ==
  IF kind = "required" THEN (IF value # <<>> THEN Bool(TRUE) ELSE Str(<<"R","e","q","u","i","r","e","d">>))
  ELSE IF kind = "minLength" THEN Bool(Len(value) >= MinLength)
  ELSE IF kind = "length" THEN Num(Len(value))
  ELSE IF kind = "emptyMessage" THEN (IF Len(value) >= MinLength THEN Bool(TRUE) ELSE Str(<<>>))
  ELSE Undefined

InputValues == { <<>>, <<"a","b">>, <<"a","b","c","d">> }

NoInput ==
  [built |-> FALSE, attached |-> FALSE, value |-> <<>>, validators |-> <<>>,
   errorMessage |-> Null, destructive |-> FALSE, errorElement |-> FALSE, errorText |-> <<>>,
   calls |-> <<>>, returned |-> "none", last |-> "none"]

\* new Input({ value })
createInput(value) == [NoInput EXCEPT !.built = TRUE, !.value = value]

\* Input.setError(message): without a parent, parentNode.querySelector raises
\* after the message and the classes are set
setError(I, message) ==
  IF I.attached
  THEN [I EXCEPT !.errorMessage = Str(message), !.destructive = TRUE,
                 !.errorElement = TRUE, !.errorText = message]
  ELSE [I EXCEPT !.errorMessage = Str(message), !.destructive = TRUE, !.returned = "throw"]

\* Input.clearError()
clearError(I) ==
  IF I.attached
  THEN [I EXCEPT !.errorMessage = Null, !.destructive = FALSE,
                 !.errorElement = FALSE, !.errorText = <<>>]
  ELSE [I EXCEPT !.errorMessage = Null, !.destructive = FALSE, !.returned = "throw"]

\* A result that passes for any truthy value
passesTruthy(result) == Truthy(result)

\* result !== true, negated
passes(result) == result = Bool(TRUE)

InvalidInput == <<"I","n","v","a","l","i","d",SP,"i","n","p","u","t">>

\* typeof result === 'string' ? result : 'Invalid input'
messageOf(result) == IF result.t = "str" THEN result.s ELSE InvalidInput

\* The loop of Input.validate from validator k on
RECURSIVE validateFrom(_, _)
validateFrom(I, k) ==
  IF k > Len(I.validators)
  THEN LET I1 == clearError([I EXCEPT !.returned = "true"]) IN I1
  ELSE LET result == applyValidator(I.validators[k], I.value)
           I1 == [I EXCEPT !.calls = Append(I.calls, k)]
       IN IF ~passes(result)
          THEN setError([I1 EXCEPT !.returned = "false"], messageOf(result))
          ELSE validateFrom(I1, k + 1)

\* Input.validate()
validate(I) == validateFrom([I EXCEPT !.calls = <<>>, !.returned = "none"], 1)

(***************************************************************************)
(* The plugin sandbox (code.ts).  The record holds whether the plugin      *)
(* runs, the nodes of the current page in order, the selection as node     *)
(* ids, the messages of the UI not yet delivered, and, of the last message *)
(* handled: the message, the number of nodes it found, the calls it made   *)
(* on the host API in order, and the messages it posted to the UI.         *)
(***************************************************************************)
MaxInFlight == 1

MaxNodes == 3

RectSize == 100

HalfSize == 50

HexLength == 6

HexDigits == <<"0","1","2","3","4","5","6","7","8","9","a","b","c","d","e","f">>

\* [a-f\d] with the flag i
isHex(c) == \E i \in 1..Len(HexDigits) : HexDigits[i] = lowerChar(c)

hexValue(c) == (CHOOSE i \in 1..Len(HexDigits) : HexDigits[i] = lowerChar(c)) - 1

\* parseInt(pair, 16); the code divides it by 255
parseHexPair(a, b) == hexValue(a) * Len(HexDigits) + hexValue(b)

NoColor == [ok |-> FALSE, r |-> 0, g |-> 0, b |-> 0]

\* hexToRgb(hex): /^#?([a-f\d]{2})([a-f\d]{2})([a-f\d]{2})$/i, null if no match
hexToRgb(hex) ==
  LET h == IF hex # <<>> /\ Head(hex) = "#" THEN Tail(hex) ELSE hex
  IN IF Len(h) = HexLength /\ \A i \in 1..Len(h) : isHex(h[i])
     THEN [ok |-> TRUE, r |-> parseHexPair(h[1], h[2]), g |-> parseHexPair(h[3], h[4]),
           b |-> parseHexPair(h[5], h[6])]
     ELSE NoColor

\* { r: 0.2, g: 0.6, b: 1 }, as parts of 255
DefaultFill == [ok |-> TRUE, r |-> 51, g |-> 153, b |-> 255]

\* The data of a message: absent, or { name, color }
NoData == [has |-> FALSE, name |-> <<>>, color |-> <<>>]

Data(name, color) == [has |-> TRUE, name |-> name, color |-> color]

Msg(type, data) == [type |-> type, data |-> data]

\* The messages the UI sends, and one of a type the sandbox does not know
UiMessages ==
  { Msg("create-rectangle", NoData),
    Msg("create-rectangle", Data(<<"M","y",SP,"R","e","c","t","a","n","g","l","e">>, <<"#","3","b","8","2","f","6">>)),
    Msg("create-rectangle", Data(<<>>, <<"r","e","d">>)),
    Msg("get-selection", NoData),
    Msg("close-plugin", NoData),
    Msg("resize", NoData) }

\* The page the plugin is started on: one frame, nothing selected
FirstNode ==
  [id |-> 1, name |-> <<"F","r","a","m","e">>, type |-> "FRAME", width |-> RectSize, height |-> RectSize,
   x |-> 0, y |-> 0, fill |-> NoColor]

NoMsg == Msg("none", NoData)

PluginStart ==
  [running |-> TRUE, nodes |-> <<FirstNode>>, selection |-> <<>>, center |-> [x |-> 0, y |-> 0],
   inbox |-> <<>>, last |-> NoMsg, found |-> 0, calls |-> <<>>, posted |-> <<>>]

\* figma.createRectangle() and the assignments of createRectangle up to
\* rect.y: the new node, not yet on the page
newRectangle(P, data) ==
  [id |-> Len(P.nodes) + 1,
   name |-> IF data.has /\ data.name # <<>> THEN data.name ELSE <<"R","e","c","t","a","n","g","l","e">>,
   type |-> "RECTANGLE", width |-> RectSize, height |-> RectSize,
   x |-> P.center.x - HalfSize, y |-> P.center.y - HalfSize,
   fill |-> IF data.has /\ data.color # <<>> /\ hexToRgb(data.color).ok
            THEN hexToRgb(data.color) ELSE DefaultFill]

\* The same calls with the reply posted before the rectangle is on the page
createRectangleCallsReplyFirst ==
  <<"createRectangle", "resize", "postMessage", "appendChild", "selection", "scrollAndZoomIntoView">>

\* The host calls of createRectangle, in the order the code makes them
createRectangleCalls ==
  <<"createRectangle", "resize", "appendChild", "selection", "scrollAndZoomIntoView", "postMessage">>

\* createRectangle(data)
createRectangle(P, data) ==
  LET rect == newRectangle(P, data)
  IN [P EXCEPT !.nodes = Append(P.nodes, rect),
               !.selection = <<rect.id>>,
               !.center = [x |-> rect.x + HalfSize, y |-> rect.y + HalfSize],
               !.posted = Append(P.posted, [type |-> "rectangle-created",
                                            data |-> <<[id |-> rect.id, name |-> rect.name]>>]),
               !.calls = P.calls \o createRectangleCalls]

\* The node of the page with the id
nodeOf(P, id) == P.nodes[CHOOSE i \in 1..Len(P.nodes) : P.nodes[i].id = id]

\* getSelection()
getSelection(P) ==
  LET selectionData ==
        [i \in 1..Len(P.selection) |->
           LET node == nodeOf(P, P.selection[i])
           IN [id |-> node.id, name |-> node.name, type |-> node.type,
               width |-> node.width, height |-> node.height]]
  IN [P EXCEPT !.posted = Append(P.posted, [type |-> "selection-data", data |-> selectionData]),
               !.calls = P.calls \o <<"postMessage">>]

\* figma.ui.onmessage(msg)
onmessage(P, msg) ==
  IF msg.type = "create-rectangle" THEN createRectangle(P, msg.data)
  ELSE IF msg.type = "get-selection" THEN getSelection(P)
  ELSE IF msg.type = "close-plugin"
  THEN [P EXCEPT !.running = FALSE, !.calls = P.calls \o <<"closePlugin">>]
  ELSE P

(***************************************************************************)
(* The installer (install.sh) and the generator it runs                    *)
(* (create-plugin.sh).  The record holds the place of the run in the       *)
(* scripts, the plugin name, the lines printed so far (without emoji and   *)
(* with the interpolated names left out), how the run ended, whether the   *)
(* post-flight check has passed, and which of manifest.json and            *)
(* package.json the clone, the generated project and the destination hold. *)
(***************************************************************************)
NoFiles == [manifest |-> FALSE, package |-> FALSE]

InstallerStart ==
  [pc |-> "start", nameArg |-> <<>>, name |-> <<>>, printed |-> <<>>, exit |-> "running",
   checked |-> FALSE, clone |-> NoFiles, project |-> NoFiles, dest |-> NoFiles]

\* The command lines of the explored runs
ArgLists ==
  { <<>>, <<<<"-","n">>, <<"M","y",SP,"P","l","u","g","i","n">>>>, <<<<"-","-","n","a","m","e">>, <<"s","r","c">>>>, <<<<"-","n">>, <<SP,SP>>>>, <<<<"-","n">>>>,
    <<<<"-","h">>>>, <<<<"M","y",SP,"P","l","u","g","i","n">>>> }

\* The while loop of install.sh over the arguments
RECURSIVE parseArgs(_, _)
parseArgs(argv, nameArg) ==
  IF argv = <<>> THEN [help |-> FALSE, nameArg |-> nameArg]
  ELSE IF Head(argv) \in { <<"-","n">>, <<"-","-","n","a","m","e">> }
  THEN IF Tail(argv) = <<>> THEN [help |-> FALSE, nameArg |-> <<>>]
       ELSE parseArgs(Tail(Tail(argv)), Head(Tail(argv)))
  ELSE IF Head(argv) = <<"-","h">> \/ Head(argv) = <<"-","-","h","e","l","p">> THEN [help |-> TRUE, nameArg |-> nameArg]
  ELSE parseArgs(Tail(argv), nameArg)

\* ${PLUGIN_NAME// }: the name without its spaces
stripSpaces(name) == SelectSeq(name, LAMBDA c : c # SP)

\* echo
echo(R, line) == [R EXCEPT !.printed = Append(R.printed, line)]

\* exit 1, or a failing command under set -e
fail(R) == [R EXCEPT !.exit = "fail", !.pc = "done"]

\* The directories of the boilerplate repository, which the clone holds
CloneDirs == { <<"s","r","c">> }

(***************************************************************************)
(* The calls.  A state holds the last call: its operation, its arguments   *)
(* and its result.                                                         *)
(***************************************************************************)
NoCfg == [base |-> Undefined, variants |-> Undefined, defaultVariants |-> Undefined]

Init ==
  /\ op = "idle"
  /\ str = Undefined
  /\ args = <<>>
  /\ cfg = NoCfg
  /\ props = Undefined
  /\ passed = <<>>
  /\ out = Ok(<<>>)
  /\ prev = Ok(<<>>)
  /\ tabs = NoTabs
  /\ doc = NoDocument
  /\ field = NoInput
  /\ plugin = PluginStart
  /\ installer = InstallerStart

\* twMerge(s)
TwMergeCall ==
  /\ op = "idle"
  /\ \E s \in TwMergeInputs :
       /\ str' = s
       /\ out' = twMerge(s)
  /\ op' = "twMerge"
  /\ UNCHANGED <<args, cfg, props, passed, prev>>
  /\ UNCHANGED ui

\* twMerge applied to the string a first twMerge returned
TwMergeAgain ==
  /\ op = "twMerge"
  /\ out.ok
  /\ prev' = out
  /\ out' = twMerge(Str(out.s))
  /\ op' = "twMergeAgain"
  /\ UNCHANGED <<str, args, cfg, props, passed>>
  /\ UNCHANGED ui

\* cn(...a)
CnCall ==
  /\ op = "idle"
  /\ \E a \in CnInputs :
       /\ args' = a
       /\ out' = cn(a)
  /\ op' = "cn"
  /\ UNCHANGED <<str, cfg, props, passed, prev>>
  /\ UNCHANGED ui

\* cn(...a) of the standalone bundle
CnStandaloneCall ==
  /\ op = "idle"
  /\ \E a \in CnInputs :
       /\ args' = a
       /\ out' = cnStandalone(a)
  /\ op' = "cnStandalone"
  /\ UNCHANGED <<str, cfg, props, passed, prev>>
  /\ UNCHANGED ui

\* The call has returned; the next one starts afresh.
Return ==
  /\ op # "idle"
  /\ op' = "idle"
  /\ str' = Undefined
  /\ args' = <<>>
  /\ cfg' = NoCfg
  /\ props' = Undefined
  /\ passed' = <<>>
  /\ out' = Ok(<<>>)
  /\ prev' = Ok(<<>>)
  /\ UNCHANGED ui

NextMerge == TwMergeCall \/ TwMergeAgain \/ Return

SpecMerge == Init /\ [][NextMerge]_vars

NextCn == CnCall \/ CnStandaloneCall \/ Return

SpecCn == Init /\ [][NextCn]_vars

(***************************************************************************)
(* The explored variant tables, defaults and props.                        *)
(***************************************************************************)
VariantAxis ==
  Entry(<<"v","a","r","i","a","n","t">>, Obj(<<Entry(<<"d","e","f","a","u","l","t">>, Str(<<"b","g","-","p","r","i","m","a","r","y">>)),
                          Entry(<<"d","e","s","t","r","u","c","t","i","v","e">>, Str(<<"b","g","-","d","e","s","t","r","u","c","t","i","v","e">>))>>))

SizeAxis ==
  Entry(<<"s","i","z","e">>, Obj(<<Entry(<<"s","m">>, Str(<<"h","-","9",SP,"p","x","-","3">>)),
                       Entry(<<"l","g">>, Str(<<"h","-","1","1",SP,"b","g","-","b","i","g">>))>>))

VariantTables ==
  { Obj(<<VariantAxis, SizeAxis>>), Obj(<<SizeAxis, VariantAxis>>), Obj(<<VariantAxis>>),
    Undefined }

DefaultTables ==
  { Undefined,
    Obj(<<Entry(<<"v","a","r","i","a","n","t">>, Str(<<"d","e","f","a","u","l","t">>))>>),
    Obj(<<Entry(<<"v","a","r","i","a","n","t">>, Str(<<"d","e","f","a","u","l","t">>)), Entry(<<"s","i","z","e">>, Str(<<"s","m">>))>>),
    Obj(<<Entry(<<"s","i","z","e">>, Str(<<"s","m">>)), Entry(<<"v","a","r","i","a","n","t">>, Str(<<"d","e","f","a","u","l","t">>))>>) }

Bases == { Str(<<"i","n","l","i","n","e","-","f","l","e","x">>), Str(<<"b","g","-","b","a","s","e",SP,"p","-","1">>) }

Configs ==
  { [base |-> b, variants |-> v, defaultVariants |-> d] :
      b \in Bases, v \in VariantTables, d \in DefaultTables }

PropEntries ==
  { Entry(<<"v","a","r","i","a","n","t">>, Str(<<"d","e","s","t","r","u","c","t","i","v","e">>)), Entry(<<"v","a","r","i","a","n","t">>, Str(<<"g","h","o","s","t">>)),
    Entry(<<"v","a","r","i","a","n","t">>, Undefined), Entry(<<"s","i","z","e">>, Str(<<"l","g">>)),
    Entry(className, Str(<<"b","g","-","r","e","d">>)), Entry(className, Str(<<"p","x","-","1",SP,"f","o","o">>)),
    Entry(className, Str(<<>>)) }

DistinctKeys(es) == \A i, j \in 1..Len(es) : i # j => es[i].s # es[j].s

PropObjects ==
  { Obj(es) : es \in { e \in SeqsUpTo(PropEntries, MaxProps) : DistinctKeys(e) } }

PropValues == PropObjects \cup { Undefined, Null, Num(1), Bool(TRUE), Str(<<"a","b">>) }

\* cva(c.base, c)(p)
CvaCall ==
  /\ op = "idle"
  /\ \E c \in Configs, p \in PropValues :
       /\ cfg' = c
       /\ props' = p
       /\ passed' = IF cvaRaises(c, p) THEN <<>> ELSE cvaClasses(c, p)
       /\ out' = cva(c, p)
  /\ op' = "cva"
  /\ UNCHANGED <<str, args, prev>>
  /\ UNCHANGED ui

NextCva == CvaCall \/ Return

SpecCva == Init /\ [][NextCva]_vars

Next == TwMergeCall \/ TwMergeAgain \/ CnCall \/ CnStandaloneCall \/ CvaCall \/ Return

Spec == Init /\ [][Next]_vars

(***************************************************************************)
(* Vocabulary of the properties.                                           *)
(***************************************************************************)
IsWhitespace(c) == c = SP \/ c = TAB

\* The whitespace-delimited tokens of a string.
RECURSIVE wsSplitFrom(_, _)
wsSplitFrom(s, cur) ==
  IF s = <<>> THEN <<cur>>
  ELSE IF IsWhitespace(Head(s)) THEN <<cur>> \o wsSplitFrom(Tail(s), <<>>)
  ELSE wsSplitFrom(Tail(s), Append(cur, Head(s)))

wsTokens(s) == SelectSeq(wsSplitFrom(s, <<>>), LAMBDA p : p # <<>>)

HasToken(s, t) == \E i \in 1..Len(wsTokens(s)) : wsTokens(s)[i] = t

\* A string argument that is one class token.
IsClassToken(v) ==
  v.t = "str" /\ v.s # <<>> /\ \A i \in 1..Len(v.s) : ~IsWhitespace(v.s[i])

SameGroup(a, b) == conflictKey(a) = conflictKey(b)

\* The index of the last token of toks in the group of toks[i].
LastOfGroup(toks, i) ==
  CHOOSE j \in i..Len(toks) :
    /\ SameGroup(toks[j], toks[i])
    /\ \A k \in (j + 1)..Len(toks) : ~SameGroup(toks[k], toks[i])

(***************************************************************************)
(* Properties of cn.                                                       *)
(***************************************************************************)
\* C1: last write wins within a conflict group.  For class tokens given to
\* cn as its arguments, the result holds the last token of each group and
\* none of the different tokens of that group given before it; for two
\* distinct tokens a, b of one group, cn(a, b) holds b and not a.
C1_LastWriteWins ==
  (op = "cn" /\ \A i \in 1..Len(args) : IsClassToken(args[i])) =>
    /\ out.ok
    /\ \A i \in 1..Len(args) :
         LET toks == [k \in 1..Len(args) |-> args[k].s]
             last == toks[LastOfGroup(toks, i)]
         IN /\ HasToken(out.s, last)
            /\ toks[i] # last => ~HasToken(out.s, toks[i])

\* C1 witness: cn(a, b) was called with two distinct tokens of one group.
C1_Witness ==
  /\ op = "cn"
  /\ Len(args) = 2
  /\ IsClassToken(args[1]) /\ IsClassToken(args[2])
  /\ args[1] # args[2]
  /\ SameGroup(args[1].s, args[2].s)
  /\ HasToken(out.s, args[2].s)

\* C2 as stated: cn("p-4", "px-6") returns exactly "px-6".
C2_PaddingExampleAsStated ==
  (op = "cn" /\ args = <<Str(<<"p","-","4">>), Str(<<"p","x","-","6">>)>>) => out = Ok(<<"p","x","-","6">>)

\* C2 amended: cn("p-4", "px-6") returns exactly "p-4 px-6"; p-4 is keyed to
\* the p- group and px-6 to the px- group, so both are kept.
C2_PaddingExampleKeepsBoth ==
  (op = "cn" /\ args = <<Str(<<"p","-","4">>), Str(<<"p","x","-","6">>)>>) => out = Ok(<<"p","-","4",SP,"p","x","-","6">>)

\* C2 witness: cn("p-4", "px-6") was called and returned.
C2_Witness ==
  op = "cn" /\ args = <<Str(<<"p","-","4">>), Str(<<"p","x","-","6">>)>> /\ out.ok

(***************************************************************************)
(* Properties of the function cva returns.                                 *)
(***************************************************************************)
\* The value selected for an axis: the caller's if props has the key, else
\* the default.
SelectedValue(c, p, axis) ==
  IF \E i \in 1..Len(ownEntries(orEmpty(p))) : ownEntries(orEmpty(p))[i].s = axis
  THEN getProp(orEmpty(p), axis)
  ELSE getProp(orEmpty(c.defaultVariants), axis)

\* Is a value selected for the axis at all?
HasSelection(c, p, axis) ==
  \/ \E i \in 1..Len(ownEntries(orEmpty(p))) : ownEntries(orEmpty(p))[i].s = axis
  \/ \E i \in 1..Len(ownEntries(orEmpty(c.defaultVariants))) :
       ownEntries(orEmpty(c.defaultVariants))[i].s = axis

\* The variant classes, one per axis, in the order the variants table
\* declares the axes.
RECURSIVE TableOrderClasses(_, _, _)
TableOrderClasses(c, p, axes) ==
  IF axes = <<>> THEN <<>>
  ELSE LET axis == Head(axes)
           cls == getProp(EntryValue(axis), toPropertyKey(SelectedValue(c, p, axis.s)))
       IN (IF HasSelection(c, p, axis.s) /\ Truthy(cls) THEN <<cls>> ELSE <<>>)
          \o TableOrderClasses(c, p, Tail(axes))

OverrideOf(p) ==
  IF Truthy(getProp(orEmpty(p), className)) THEN <<getProp(orEmpty(p), className)>> ELSE <<>>

\* C3 as stated: the returned function passes to cn the base, then one class
\* string per axis in the order the variants table declares the axes, then
\* the className override, whatever the key order of defaultVariants and
\* props.
C3_FixedLayeringOrder ==
  (op = "cva" /\ out.ok) =>
    passed = <<cfg.base>> \o TableOrderClasses(cfg, props, orEmpty(cfg.variants).items)
               \o OverrideOf(props)

\* The tokens of the class strings the returned function passes to cn before
\* the override.
RECURSIVE TokensOfAll(_)
TokensOfAll(vs) ==
  IF vs = <<>> THEN <<>>
  ELSE (IF Head(vs).t = "str" THEN wsTokens(Head(vs).s) ELSE <<>>) \o TokensOfAll(Tail(vs))

InSeq(seq, x) == \E i \in 1..Len(seq) : seq[i] = x

HasOverride(p) == p.t = "obj" /\ Truthy(getProp(p, className)) /\ getProp(p, className).t = "str"

\* C4: variant override dominance.  When the caller passes a className, the
\* result holds the last className token of each group, and holds no token of
\* the base or of a selected variant class that is in the group of a
\* className token (unless the className repeats that very token).
C4_OverrideDominance ==
  (op = "cva" /\ out.ok /\ HasOverride(props)) =>
    LET ov == wsTokens(getProp(props, className).s)
        before == TokensOfAll(SubSeq(passed, 1, Len(passed) - 1))
    IN /\ \A i \in 1..Len(ov) : HasToken(out.s, ov[LastOfGroup(ov, i)])
       /\ \A j \in 1..Len(before) :
            ((\E i \in 1..Len(ov) : SameGroup(before[j], ov[i])) /\ ~InSeq(ov, before[j]))
              => ~HasToken(out.s, before[j])

\* C4 witness: a className token met a different token of its group in a
\* selected variant class, and the result holds the className token.
C4_Witness ==
  /\ op = "cva" /\ out.ok /\ HasOverride(props)
  /\ Len(passed) >= 3
  /\ \E v \in 1..Len(wsTokens(passed[2].s)) :
       \E i \in 1..Len(wsTokens(getProp(props, className).s)) :
         LET c == wsTokens(getProp(props, className).s)[i]
             t == wsTokens(passed[2].s)[v]
         IN SameGroup(t, c) /\ t # c /\ HasToken(out.s, c) /\ ~HasToken(out.s, t)

(***************************************************************************)
(* Failure.                                                                *)
(***************************************************************************)
\* C5 as stated: no call raises; cn, twMerge and the function cva returns
\* give back a string for every argument.
C5_ZeroThrow ==
  (op \in {"cn", "twMerge", "twMergeAgain", "cva"}) => out.ok

(***************************************************************************)
(* Properties of twMerge.                                                  *)
(***************************************************************************)
\* The keys of conflictGroups that are prefixes (they end with a dash).
PrefixKeys ==
  { conflictGroups[i].key : i \in { j \in 1..Len(conflictGroups) :
      conflictGroups[j].key[Len(conflictGroups[j].key)] = "-" } }

MatchingPrefixes(t) == { k \in PrefixKeys : startsWith(t, k) }

LongestPrefix(t) ==
  CHOOSE k \in MatchingPrefixes(t) : \A l \in MatchingPrefixes(t) : Len(l) <= Len(k)

\* C6 as stated: a token that starts with conflict-group prefixes is keyed to
\* the group of the longest of them (a px-* token to px-, never to the
\* generic p-), whatever the order the groups are declared in.
C6_LongestPrefixWins ==
  (op = "twMerge" /\ str.t = "str") =>
    \A i \in 1..Len(tokens(str.s)) :
      LET t == tokens(str.s)[i]
      IN MatchingPrefixes(t) # {} => conflictKey(t) = LongestPrefix(t)

DisplayKeys ==
  { <<"b","l","o","c","k">>, <<"i","n","l","i","n","e">>, <<"f","l","e","x">>,
    <<"g","r","i","d">>, <<"h","i","d","d","e","n">> }

\* C7 as stated: only the literal display tokens are in a display group; two
\* distinct tokens that merely begin with a display word both survive cn.
C7_DisplayLiteralsOnly ==
  (op = "cn" /\ Len(args) = 2 /\ IsClassToken(args[1]) /\ IsClassToken(args[2])
     /\ args[1] # args[2]
     /\ ~InSeq(DisplayGroup, args[1].s) /\ ~InSeq(DisplayGroup, args[2].s)
     /\ \E d \in DisplayKeys : startsWith(args[1].s, d)
     /\ \E e \in DisplayKeys : startsWith(args[2].s, e)) =>
    /\ conflictKey(args[1].s) \notin DisplayKeys
    /\ conflictKey(args[2].s) \notin DisplayKeys
    /\ HasToken(out.s, args[1].s)
    /\ HasToken(out.s, args[2].s)

\* The indices of the tokens that open a group, in increasing order.
GroupOpeners(toks) ==
  SelectSeq([i \in 1..Len(toks) |-> i],
            LAMBDA i : \A j \in 1..(i - 1) : ~SameGroup(toks[j], toks[i]))

\* One token per group, at the place of the group's first token: the last
\* token of the group.
SurvivorsInOrder(toks) ==
  [n \in 1..Len(GroupOpeners(toks)) |-> toks[LastOfGroup(toks, GroupOpeners(toks)[n])]]

\* C8: output ordering.  The result of twMerge holds exactly one token per
\* conflict group of the input, the groups in the order of their first
\* appearance, each represented by its last token.
C8_OutputOrdering ==
  (op = "twMerge" /\ str.t = "str") =>
    /\ out.ok
    /\ out.s = join(SurvivorsInOrder(tokens(str.s)))

\* C8 witness: a later token replaced an earlier one of its group that stood
\* before a token of another group, and took its place.
C8_Witness ==
  /\ op = "twMerge" /\ str.t = "str"
  /\ Len(tokens(str.s)) = 3
  /\ SameGroup(tokens(str.s)[1], tokens(str.s)[3])
  /\ ~SameGroup(tokens(str.s)[1], tokens(str.s)[2])
  /\ tokens(str.s)[1] # tokens(str.s)[3]
  /\ out.s = tokens(str.s)[3] \o <<SP>> \o tokens(str.s)[2]

\* C9: idempotence.  twMerge applied to a result of twMerge returns that
\* result.
C9_Idempotent ==
  (op = "twMergeAgain") => out = prev

\* C9 witness: the first twMerge dropped a token and kept several, and the
\* second was applied to its result.
C9_Witness ==
  /\ op = "twMergeAgain"
  /\ Len(tokens(prev.s)) >= 2
  /\ Len(tokens(prev.s)) < Len(tokens(str.s))
  /\ out.ok

\* No whitespace at either end and none doubled.
CleanSpacing(s) ==
  /\ s # <<>> => ~IsWhitespace(s[1]) /\ ~IsWhitespace(s[Len(s)])
  /\ \A i \in 1..(Len(s) - 1) : ~(IsWhitespace(s[i]) /\ IsWhitespace(s[i + 1]))

TruthyOnly(vs) == SelectSeq(vs, Truthy)

PairwiseOtherGroups(toks) ==
  \A i, j \in 1..Len(toks) : i # j => ~SameGroup(toks[i], toks[j])

\* C10 as stated: for arguments that are strings or falsy values, cn returns
\* the tokens of the non-falsy arguments separated by single spaces, with no
\* leading, trailing or doubled whitespace, and the empty string when no
\* argument is truthy.
C10_FalsyElision ==
  (op = "cn" /\ \A i \in 1..Len(args) : args[i].t = "str" \/ ~Truthy(args[i])) =>
    /\ out.ok
    /\ CleanSpacing(out.s)
    /\ TruthyOnly(args) = <<>> => out.s = <<>>
    /\ PairwiseOtherGroups(TokensOfAll(TruthyOnly(args)))
         => out.s = join(TokensOfAll(TruthyOnly(args)))

(***************************************************************************)
(* Tokenisation, variant selection, mappings, unmatched tokens.            *)
(***************************************************************************)
\* C11 as stated: twMerge splits on any whitespace (spaces, tabs, runs of
\* them), so no token of the result holds a whitespace character and tokens
\* that only a tab separates are resolved as separate tokens.
C11_WhitespaceTokenisation ==
  (op = "twMerge" /\ str.t = "str") =>
    /\ out.ok
    /\ \A i \in 1..Len(tokens(out.s)) :
         \A j \in 1..Len(tokens(out.s)[i]) : ~IsWhitespace(tokens(out.s)[i][j])
    /\ out.s = join(SurvivorsInOrder(wsTokens(str.s)))

\* How often x occurs in seq.
Count(seq, x) == Cardinality({ i \in 1..Len(seq) : seq[i] = x })

SameBag(a, b) ==
  /\ Len(a) = Len(b)
  /\ \A i \in 1..Len(a) : Count(a, a[i]) = Count(b, a[i])

ButtonExample ==
  [base |-> Str(<<"i","n","l","i","n","e","-","f","l","e","x">>), variants |-> Obj(<<VariantAxis>>),
   defaultVariants |-> Obj(<<Entry(<<"v","a","r","i","a","n","t">>, Str(<<"d","e","f","a","u","l","t">>))>>)]

\* C12: per-axis variant selection.  Besides the base and the className
\* override, the returned function passes to cn exactly the classes
\* variants[axis][v], one for each axis that has a value v with an entry, v
\* being the caller's value where props has the axis as a key and the default
\* otherwise; an axis whose value has no entry adds nothing and the call does
\* not raise; with no props the button example gives "inline-flex bg-primary".
C12_PerAxisSelection ==
  (op = "cva" /\ props.t \in {"obj", "undef"}) =>
    /\ out.ok
    /\ Len(passed) >= 1 + Len(OverrideOf(props))
    /\ passed[1] = cfg.base
    /\ SameBag(SubSeq(passed, 2, Len(passed) - Len(OverrideOf(props))),
               TableOrderClasses(cfg, props, orEmpty(cfg.variants).items))
    /\ out = cn(passed)
    /\ (cfg = ButtonExample /\ props = Undefined) => out = Ok(<<"i","n","l","i","n","e","-","f","l","e","x",SP,"b","g","-","p","r","i","m","a","r","y">>)

\* C12 witness: the caller's value replaced the default of one axis while
\* another axis kept its default, and a call with a value that has no entry
\* is reachable too.
C12_Witness ==
  /\ op = "cva" /\ out.ok /\ props.t = "obj"
  /\ getProp(props, <<"v","a","r","i","a","n","t">>) = Str(<<"d","e","s","t","r","u","c","t","i","v","e">>)
  /\ getProp(cfg.defaultVariants, <<"v","a","r","i","a","n","t">>) = Str(<<"d","e","f","a","u","l","t">>)
  /\ getProp(cfg.defaultVariants, <<"s","i","z","e">>) = Str(<<"s","m">>)
  /\ cfg.variants.t = "obj" /\ Len(cfg.variants.items) = 2
  /\ HasToken(out.s, <<"b","g","-","d","e","s","t","r","u","c","t","i","v","e">>)
  /\ ~HasToken(out.s, <<"b","g","-","p","r","i","m","a","r","y">>)
  /\ HasToken(out.s, <<"h","-","9">>)

\* The keys of a mapping whose value is truthy, in iteration order.
TruthyKeys(o) ==
  LET kept == SelectSeq(o.items, LAMBDA e : Truthy(EntryValue(e)))
  IN [i \in 1..Len(kept) |-> kept[i].s]

Unmatched(t) ==
  \A i \in 1..Len(conflictGroups) :
    /\ ~startsWith(t, conflictGroups[i].key)
    /\ ~InSeq(conflictGroups[i].group, t)

\* C14: singleton groups.  Every unmatched token of the input is in the
\* result of twMerge exactly once: distinct unmatched tokens never remove one
\* another, and exact duplicates collapse to one occurrence.
C14_SingletonGroups ==
  (op = "twMerge" /\ str.t = "str") =>
    \A i \in 1..Len(tokens(str.s)) :
      Unmatched(tokens(str.s)[i]) => Count(tokens(out.s), tokens(str.s)[i]) = 1

\* C14 witness: the input held an unmatched token twice and another
\* unmatched token, and the result holds each once.
C14_Witness ==
  /\ op = "twMerge" /\ str.t = "str"
  /\ Len(tokens(str.s)) = 3
  /\ \A i \in 1..3 : Unmatched(tokens(str.s)[i])
  /\ tokens(str.s)[1] = tokens(str.s)[3]
  /\ tokens(str.s)[1] # tokens(str.s)[2]
  /\ Len(tokens(out.s)) = 2

(***************************************************************************)
(* The operations on a Tabs instance.  The i-th trigger (panel) added has  *)
(* the value TabNames[i], so the values of a component are distinct.       *)
(***************************************************************************)
util == <<op, str, args, cfg, props, passed, out, prev>>

\* The component as an operation finds it: no event dispatched yet
TabsBegin(name, key, target) ==
  [tabs EXCEPT !.events = <<>>,
               !.last = [name |-> name, key |-> key, target |-> target, before |-> tabs.activeTab]]

TabValues == { TabNames[i] : i \in 1..MaxTabs }

\* new Tabs({ defaultValue })
NewTabs ==
  /\ ~tabs.built
  /\ \E d \in TabValues \cup {""} :
       tabs' = [createTabs(d) EXCEPT !.last.name = "new"]
  /\ UNCHANGED <<util, doc, field, plugin, installer>>

\* tabs.addTrigger({ value, disabled })
AddTrigger ==
  /\ tabs.built /\ ~tabs.attached
  /\ Len(tabs.triggers) < MaxTabs
  /\ \E d \in BOOLEAN :
       tabs' = addTrigger(TabsBegin("addTrigger", "", 0), TabNames[Len(tabs.triggers) + 1], d)
  /\ UNCHANGED <<util, doc, field, plugin, installer>>

\* tabs.addContent({ value })
AddContent ==
  /\ tabs.built /\ ~tabs.attached
  /\ Len(tabs.panels) < MaxTabs
  /\ tabs' = addContent(TabsBegin("addContent", "", 0), TabNames[Len(tabs.panels) + 1])
  /\ UNCHANGED <<util, doc, field, plugin, installer>>

\* tabs.addTab({ value, triggerOptions: { disabled } })
AddTab ==
  /\ tabs.built /\ ~tabs.attached
  /\ Len(tabs.triggers) < MaxTabs
  /\ Len(tabs.panels) = Len(tabs.triggers)
  /\ \E d \in BOOLEAN :
       tabs' = addTab(TabsBegin("addTab", "", 0), TabNames[Len(tabs.triggers) + 1], d)
  /\ UNCHANGED <<util, doc, field, plugin, installer>>

\* tabs.appendTo(parent): the component enters the document
AppendTo ==
  /\ tabs.built /\ ~tabs.attached
  /\ tabs' = [TabsBegin("appendTo", "", 0) EXCEPT !.attached = TRUE]
  /\ UNCHANGED <<util, doc, field, plugin, installer>>

\* tabs.setActiveTab(value)
SetActiveTab ==
  /\ tabs.attached
  /\ \E v \in TabValues :
       tabs' = setActiveTab(TabsBegin("setActiveTab", v, 0), v)
  /\ UNCHANGED <<util, doc, field, plugin, installer>>

\* tabs.setTabDisabled(value, disabled)
SetTabDisabled ==
  /\ tabs.attached
  /\ \E i \in 1..Len(tabs.triggers), d \in BOOLEAN :
       /\ tabs.triggers[i].disabled # d
       /\ tabs' = setTabDisabled(TabsBegin("setTabDisabled", "", i), tabs.triggers[i].value, d)
  /\ UNCHANGED <<util, doc, field, plugin, installer>>

\* A click on trigger i.  The browser sends no click to a disabled button.
ClickTrigger ==
  /\ tabs.attached
  /\ \E i \in 1..Len(tabs.triggers) :
       /\ ~tabs.triggers[i].disabled
       /\ tabs' = clickTrigger(TabsBegin("click", "", i), i)
  /\ UNCHANGED <<util, doc, field, plugin, installer>>

\* A keydown event on trigger i
KeydownTrigger ==
  /\ tabs.attached
  /\ \E i \in 1..Len(tabs.triggers), key \in TabKeys :
       tabs' = handleTabKeydown(TabsBegin("keydown", key, i), i, key)
  /\ UNCHANGED <<util, doc, field, plugin, installer>>

NextTabs ==
  \/ NewTabs \/ AddTrigger \/ AddContent \/ AddTab \/ AppendTo
  \/ SetActiveTab \/ SetTabDisabled \/ ClickTrigger \/ KeydownTrigger

SpecTabs == Init /\ [][NextTabs]_vars

(***************************************************************************)
(* Properties of Tabs.                                                     *)
(***************************************************************************)
TriggerValues(T) == { T.triggers[i].value : i \in 1..Len(T.triggers) }

PanelValues(T) == { T.panels[i].value : i \in 1..Len(T.panels) }

\* Every tab has its trigger and its panel, and the default value, if any,
\* names a tab.
WellBuilt(T) ==
  /\ T.built /\ T.attached
  /\ TriggerValues(T) # {}
  /\ TriggerValues(T) = PanelValues(T)
  /\ T.defaultValue \in TriggerValues(T) \cup {""}

PanelShown(p) == p.display = "" /\ ~p.ariaHidden

ActivePanelShown(T) ==
  /\ \A i \in 1..Len(T.panels) : PanelShown(T.panels[i]) <=> T.panels[i].value = getActiveTab(T)
  /\ \A i \in 1..Len(T.triggers) : T.triggers[i].selected <=> T.triggers[i].value = getActiveTab(T)

\* C15: in a Tabs built from addTab/addTrigger/addContent whose active value
\* names one of its tabs, once the component is built and in the document
\* and after every later operation, the panel of getActiveTab() is shown
\* with aria-hidden false, every other panel is hidden, and exactly the
\* trigger of that value is selected.
C15_ActivePanelInvariant ==
  (WellBuilt(tabs) /\ getActiveTab(tabs) \in TriggerValues(tabs)) => ActivePanelShown(tabs)

\* The trigger the claim names for a key pressed on the enabled trigger i
KeyTarget(T, i, key) ==
  LET trs == enabledTriggers(T)
      n == Len(trs)
      p == indexOfTrigger(trs, i) + 1
  IN IF key \in { "ArrowRight", "ArrowDown" } THEN trs[(p % n) + 1]
     ELSE IF key \in { "ArrowLeft", "ArrowUp" } THEN trs[((p + n - 2) % n) + 1]
     ELSE IF key = "Home" THEN trs[1]
     ELSE IF key = "End" THEN trs[n]
     ELSE i

IsTabKey(key) ==
  key \in { "ArrowLeft", "ArrowUp", "ArrowRight", "ArrowDown", "Home", "End", "Enter", " " }

Activated(T, v) == T.events # <<>> /\ T.activeTab = v

\* C16: after a keydown on a trigger, the active tab is the next, previous,
\* first or last non-disabled trigger (arrows wrap), or the trigger itself
\* for Enter and Space; no key activates a disabled trigger; any other key
\* changes nothing.
C16_KeyboardNavigation ==
  tabs.last.name = "keydown" =>
    LET i == tabs.last.target
        key == tabs.last.key
    IN /\ (IsTabKey(key) /\ ~tabs.triggers[i].disabled)
            => Activated(tabs, tabs.triggers[KeyTarget(tabs, i, key)].value)
       /\ \A j \in 1..Len(tabs.triggers) :
            tabs.triggers[j].disabled => ~Activated(tabs, tabs.triggers[j].value)
       /\ ~IsTabKey(key) => (tabs.events = <<>> /\ tabs.activeTab = tabs.last.before)

(***************************************************************************)
(* The operations on the selects of the document.                          *)
(***************************************************************************)
BuiltSelects(D) == { s \in SelectIds : D.roots[s].built }

\* The first open select of the document, "" if none
openRoot(D) ==
  LET hits == { i \in 1..Len(SelectOrder) : D.roots[SelectOrder[i]].isOpen }
  IN IF hits = {} THEN "" ELSE SelectOrder[CHOOSE i \in hits : \A h \in hits : i <= h]

\* The document as an operation finds it: no event dispatched yet; the
\* operation, the open select, its highlighted item and its search term
SelectBegin(name, key, target) ==
  [doc EXCEPT !.events = <<>>,
              !.last = [name |-> name, key |-> key, target |-> target,
                        accent |-> IF target = "" THEN 0 ELSE accentItem(doc.roots[target]),
                        searchTerm |-> IF target = "" THEN <<>> ELSE doc.roots[target].searchTerm]]

\* new Select(options) with its trigger, list and items, put in the document
BuildSelect ==
  /\ Cardinality(BuiltSelects(doc)) < MaxSelects
  /\ \E s \in SelectIds \ BuiltSelects(doc), d \in BOOLEAN, x \in BOOLEAN :
       doc' = [SelectBegin("build", "", "") EXCEPT !.roots[s] = createSelect(d, x)]
  /\ UNCHANGED <<util, tabs, field, plugin, installer>>

\* select.open()
OpenSelect ==
  /\ doc.timers < MaxTimers
  /\ \E s \in BuiltSelects(doc) :
       doc' = openSelect(SelectBegin("open", "", s), s)
  /\ UNCHANGED <<util, tabs, field, plugin, installer>>

\* select.close()
CloseSelect ==
  /\ \E s \in BuiltSelects(doc) :
       doc' = closeSelect(SelectBegin("close", "", s), s)
  /\ UNCHANGED <<util, tabs, field, plugin, installer>>

\* A setTimeout(..., 0) callback of openSelect runs
OpenSelectTimeout ==
  /\ doc.timers > 0
  /\ doc' = openSelectTimeout(SelectBegin("timeout", "", ""))
  /\ UNCHANGED <<util, tabs, field, plugin, installer>>

\* The 1000 ms callback of handleTypeAhead runs
SearchTimeout ==
  /\ \E s \in BuiltSelects(doc) :
       /\ doc.roots[s].searchTimeout
       /\ doc' = searchTimeoutFires(SelectBegin("searchTimeout", "", s), s)
  /\ UNCHANGED <<util, tabs, field, plugin, installer>>

\* A keydown reaches the document while handleSelectKeydown is registered
DocumentKeydown ==
  /\ doc.onKeydown
  /\ \E key \in SelectKeys :
       /\ \A s \in SelectIds : Len(doc.roots[s].searchTerm) < MaxSearch
       /\ doc' = handleSelectKeydown(SelectBegin("keydown", key, openRoot(doc)), key)
  /\ UNCHANGED <<util, tabs, field, plugin, installer>>

\* select.setDisabled(disabled)
SetDisabled ==
  /\ \E s \in BuiltSelects(doc), d \in BOOLEAN :
       doc' = setDisabled(SelectBegin("setDisabled", "", s), s, d)
  /\ UNCHANGED <<util, tabs, field, plugin, installer>>

\* A click on the trigger of a select; the browser sends none to a
\* disabled button.  The click bubbles to the document, where
\* handleOutsideClick finds the target inside a select root and does nothing.
TriggerClick ==
  /\ doc.timers < MaxTimers
  /\ \E s \in BuiltSelects(doc) :
       /\ ~doc.roots[s].triggerDisabled
       /\ doc' = triggerClick(SelectBegin("triggerClick", "", s), s)
  /\ UNCHANGED <<util, tabs, field, plugin, installer>>

\* A keydown on the focused trigger of a select: handleTriggerKeydown runs,
\* then the event bubbles to the document and handleSelectKeydown runs if
\* it is still registered
TriggerKeydown ==
  /\ doc.timers < MaxTimers
  /\ \E s \in BuiltSelects(doc), key \in SelectKeys :
       /\ ~doc.roots[s].triggerDisabled
       /\ \A r \in SelectIds : Len(doc.roots[r].searchTerm) < MaxSearch
       /\ LET D1 == handleTriggerKeydown(SelectBegin("triggerKeydown", key, s), s, key)
          IN doc' = IF doc.onKeydown /\ D1.onKeydown THEN handleSelectKeydown(D1, key) ELSE D1
  /\ UNCHANGED <<util, tabs, field, plugin, installer>>

\* A click on an item of a shown list
ItemClick ==
  /\ \E s \in BuiltSelects(doc) :
       /\ doc.roots[s].display = "block"
       /\ \E i \in 1..Len(doc.roots[s].items) :
            doc' = itemClick(SelectBegin("itemClick", "", s), s, i)
  /\ UNCHANGED <<util, tabs, field, plugin, installer>>

\* A click outside every select root while handleOutsideClick is registered
OutsideClick ==
  /\ doc.onClick
  /\ doc' = handleOutsideClick(SelectBegin("outsideClick", "", ""))
  /\ UNCHANGED <<util, tabs, field, plugin, installer>>

NextSelect ==
  \/ BuildSelect \/ OpenSelect \/ CloseSelect \/ OpenSelectTimeout
  \/ SearchTimeout \/ DocumentKeydown
  \/ SetDisabled \/ TriggerClick \/ TriggerKeydown \/ ItemClick \/ OutsideClick

SpecSelect == Init /\ [][NextSelect]_vars

(***************************************************************************)
(* Properties of Select.                                                   *)
(***************************************************************************)
\* The first not disabled item whose lower-cased text starts with term, 0 if none
FirstMatch(R, term) ==
  LET hits == { i \in 1..Len(R.items) :
                  ~R.items[i].disabled /\ startsWith(toLowerCase(R.items[i].text), term) }
  IN IF hits = {} THEN 0 ELSE CHOOSE i \in hits : \A h \in hits : i <= h

\* The not disabled item after (dir = 1) or before (dir = -1) item `from`,
\* wrapping; from no item, the first or the last
Neighbour(R, from, dir) ==
  LET en == enabledItems(R)
      n == Len(en)
      p == IF \E k \in 1..n : en[k] = from THEN CHOOSE k \in 1..n : en[k] = from ELSE 0
  IN IF p = 0 THEN (IF dir = 1 THEN en[1] ELSE en[n])
     ELSE en[((p - 1 + dir + n) % n) + 1]

\* What the claim says of a key that arrived while select s was open
KeyHandled(D, s, key) ==
  LET R == D.roots[s]
      en == enabledItems(R)
      was == D.last.accent
      term == D.last.searchTerm \o toLowerCase(<<key>>)
  IN /\ key = "Escape" => ~R.isOpen
     /\ key = "ArrowDown" => accentItem(R) = Neighbour(R, was, 1)
     /\ key = "ArrowUp" => accentItem(R) = Neighbour(R, was, -1)
     /\ key = "Home" => accentItem(R) = en[1]
     /\ key = "End" => accentItem(R) = en[Len(en)]
     /\ (key \in { "Enter", " " } /\ was # 0) => (R.value = R.items[was].value /\ ~R.isOpen)
     /\ (key \in SingleCharKeys \ {" "} /\ FirstMatch(R, term) # 0)
          => accentItem(R) = FirstMatch(R, term)

\* C17: a keydown that reaches the document while a select is open and the
\* listeners are registered closes the select on Escape, moves the
\* highlight to the next or previous not disabled item on ArrowDown and
\* ArrowUp (wrapping), to the first or last on Home and End, selects the
\* highlighted item on Enter and Space, and on a printable character
\* highlights the first item whose text starts with the accumulated search
\* term.
C17_SelectKeyboardNavigation ==
  (doc.last.name = "keydown" /\ doc.last.target # "")
    => KeyHandled(doc, doc.last.target, doc.last.key)

(***************************************************************************)
(* The operations on an Input.                                             *)
(***************************************************************************)
\* The input as an operation finds it
InputBegin(name) == [field EXCEPT !.calls = <<>>, !.returned = "none", !.last = name]

\* new Input({ value })
NewInput ==
  /\ ~field.built
  /\ \E v \in InputValues : field' = [createInput(v) EXCEPT !.last = "new"]
  /\ UNCHANGED <<util, tabs, doc, plugin, installer>>

\* input.addValidator(validator)
AddValidator ==
  /\ field.built
  /\ Len(field.validators) < MaxValidators
  /\ \E k \in ValidatorKinds :
       field' = [InputBegin("addValidator") EXCEPT !.validators = Append(field.validators, k)]
  /\ UNCHANGED <<util, tabs, doc, plugin, installer>>

\* input.appendTo(parent)
AppendInput ==
  /\ field.built /\ ~field.attached
  /\ field' = [InputBegin("appendTo") EXCEPT !.attached = TRUE]
  /\ UNCHANGED <<util, tabs, doc, plugin, installer>>

\* input.setValue(value), or the user typing
SetValue ==
  /\ field.built
  /\ \E v \in InputValues \ {field.value} :
       field' = [InputBegin("setValue") EXCEPT !.value = v]
  /\ UNCHANGED <<util, tabs, doc, plugin, installer>>

\* input.validate()
Validate ==
  /\ field.built
  /\ field' = validate(InputBegin("validate"))
  /\ UNCHANGED <<util, tabs, doc, plugin, installer>>

\* Another Input of the same parent runs setError: the parent's one
\* .input-error element is made or reused
SiblingSetError ==
  /\ field.attached
  /\ field' = [InputBegin("siblingSetError") EXCEPT !.errorElement = TRUE, !.errorText = <<"O","t","h","e","r">>]
  /\ UNCHANGED <<util, tabs, doc, plugin, installer>>

\* Another Input of the same parent runs clearError
SiblingClearError ==
  /\ field.attached /\ field.errorElement
  /\ field' = [InputBegin("siblingClearError") EXCEPT !.errorElement = FALSE, !.errorText = <<>>]
  /\ UNCHANGED <<util, tabs, doc, plugin, installer>>

NextInput ==
  \/ NewInput \/ AddValidator \/ AppendInput \/ SetValue \/ Validate
  \/ SiblingSetError \/ SiblingClearError

SpecInput == Init /\ [][NextInput]_vars

(***************************************************************************)
(* Properties of Input.                                                    *)
(***************************************************************************)
ResultOf(i) == applyValidator(field.validators[i], field.value)

AllTrue == \A i \in 1..Len(field.validators) : ResultOf(i) = Bool(TRUE)

FirstFailing ==
  CHOOSE i \in 1..Len(field.validators) :
    /\ ResultOf(i) # Bool(TRUE)
    /\ \A j \in 1..(i - 1) : ResultOf(j) = Bool(TRUE)

UpTo(n) == [i \in 1..n |-> i]

ErrorShown(message) ==
  /\ field.errorMessage = Str(message)
  /\ field.destructive
  /\ field.errorElement
  /\ field.errorText = message

PluginIdle == [plugin EXCEPT !.last = NoMsg, !.found = 0, !.calls = <<>>, !.posted = <<>>]

CreatesInFlight(P) ==
  Cardinality({ i \in 1..Len(P.inbox) : P.inbox[i].type = "create-rectangle" })

\* parent.postMessage({ pluginMessage: message }, '*') in the UI
UiPostMessage ==
  /\ plugin.running
  /\ Len(plugin.inbox) < MaxInFlight
  /\ \E m \in UiMessages :
       /\ m.type = "create-rectangle" => Len(plugin.nodes) + CreatesInFlight(plugin) < MaxNodes
       /\ plugin' = [PluginIdle EXCEPT !.inbox = Append(plugin.inbox, m)]
  /\ UNCHANGED <<util, tabs, doc, field, installer>>

\* figma.ui.onmessage runs on the oldest message
Deliver ==
  /\ plugin.running
  /\ plugin.inbox # <<>>
  /\ plugin' = onmessage([PluginIdle EXCEPT !.inbox = Tail(plugin.inbox),
                                            !.last = Head(plugin.inbox),
                                            !.found = Len(plugin.nodes)],
                         Head(plugin.inbox))
  /\ UNCHANGED <<util, tabs, doc, field, installer>>

\* The user selects some nodes of the page
UserSelects ==
  /\ plugin.running
  /\ \E chosen \in SUBSET { plugin.nodes[i].id : i \in 1..Len(plugin.nodes) } :
       LET sel == SelectSeq([i \in 1..Len(plugin.nodes) |-> plugin.nodes[i].id],
                            LAMBDA id : id \in chosen)
       IN /\ sel # plugin.selection
          /\ plugin' = [PluginIdle EXCEPT !.selection = sel]
  /\ UNCHANGED <<util, tabs, doc, field, installer>>

NextPlugin == UiPostMessage \/ Deliver \/ UserSelects

SpecPlugin == Init /\ [][NextPlugin]_vars

(***************************************************************************)
(* Properties of the plugin.                                               *)
(***************************************************************************)
CallIndex(calls, name) == CHOOSE i \in 1..Len(calls) : calls[i] = name

Called(calls, name) == \E i \in 1..Len(calls) : calls[i] = name

\* The last message made one rectangle, the last node of the page, which
\* is the whole selection, and then posted one rectangle-created reply
RectangleCreated(P) ==
  /\ Len(P.nodes) = P.found + 1
  /\ P.nodes[Len(P.nodes)].type = "RECTANGLE"
  /\ P.selection = <<P.nodes[Len(P.nodes)].id>>
  /\ Len(P.posted) = 1
  /\ P.posted[1].type = "rectangle-created"
  /\ P.posted[1].data = <<[id |-> P.nodes[Len(P.nodes)].id, name |-> P.nodes[Len(P.nodes)].name]>>
  /\ Called(P.calls, "appendChild") /\ Called(P.calls, "selection") /\ Called(P.calls, "postMessage")
  /\ CallIndex(P.calls, "appendChild") < CallIndex(P.calls, "postMessage")
  /\ CallIndex(P.calls, "selection") < CallIndex(P.calls, "postMessage")

\* The last message posted one selection-data reply, one entry per
\* selected node, and made no node
SelectionReported(P) ==
  /\ Len(P.nodes) = P.found
  /\ Len(P.posted) = 1
  /\ P.posted[1].type = "selection-data"
  /\ Len(P.posted[1].data) = Len(P.selection)
  /\ \A i \in 1..Len(P.selection) : P.posted[1].data[i].id = P.selection[i]

\* C19: a create-rectangle message produces exactly one rectangle-created
\* reply, posted after the new rectangle is on the page and is the whole
\* selection; a get-selection message produces exactly one selection-data
\* reply with one entry per selected node; a close-plugin message or a
\* message of another type produces no reply and no node.
C19_MessageProtocol ==
  plugin.last.type # "none" =>
    /\ plugin.last.type = "create-rectangle" => RectangleCreated(plugin)
    /\ plugin.last.type = "get-selection" => SelectionReported(plugin)
    /\ plugin.last.type \notin { "create-rectangle", "get-selection" }
         => (plugin.posted = <<>> /\ Len(plugin.nodes) = plugin.found)

\* A named rectangle was made on a page that already had a rectangle
C19_Witness ==
  /\ plugin.last = Msg("create-rectangle", Data(<<"M","y",SP,"R","e","c","t","a","n","g","l","e">>, <<"#","3","b","8","2","f","6">>))
  /\ Len(plugin.nodes) = MaxNodes
  /\ Len(plugin.posted) = 1
  /\ plugin.posted[1].data[1].name = <<"M","y",SP,"R","e","c","t","a","n","g","l","e">>
  /\ plugin.nodes[Len(plugin.nodes)].fill = [ok |-> TRUE, r |-> 59, g |-> 130, b |-> 246]

(***************************************************************************)
(* The steps of a run of install.sh.  What the machine answers (a command  *)
(* is installed, a path exists, a command succeeds) is chosen at the step  *)
(* that asks.                                                              *)
(***************************************************************************)
InstallStep(R) ==
  /\ installer' = R
  /\ UNCHANGED <<util, tabs, doc, field, plugin>>

\* install.sh 5-25: the banner and the arguments
ParseArgs ==
  /\ installer.pc = "start"
  /\ \E argv \in ArgLists :
       LET r == parseArgs(argv, <<>>)
           R1 == echo(installer, "Figma Plugin Boilerplate Installer")
       IN InstallStep(IF r.help
                      THEN [echo(R1, "Usage: install.sh [-n|--name \"My Plugin\"]")
                              EXCEPT !.exit = "ok", !.pc = "done"]
                      ELSE [R1 EXCEPT !.nameArg = r.nameArg, !.pc = "prerequisites"])

\* install.sh 27-35
CheckPrerequisites ==
  /\ installer.pc = "prerequisites"
  /\ \E git \in BOOLEAN, npm \in BOOLEAN :
       InstallStep(IF ~git THEN fail(echo(installer, "git is required. Please install git and try again."))
                   ELSE IF ~npm
                   THEN fail(echo(installer, "npm is required. Please install Node.js (includes npm) and try again."))
                   ELSE [installer EXCEPT !.pc = "name"])

\* install.sh 37-51: the name from the argument, the environment or the
\* prompt; read fails at the end of the input
DetermineName ==
  /\ installer.pc = "name"
  /\ \E env \in { <<>>, <<"E","n","v",SP,"P","l","u","g","i","n">> }, tty \in BOOLEAN, typed \in { <<>>, <<"T","y","p","e","d",SP,"P","l","u","g","i","n">> },
        eof \in BOOLEAN :
       LET first == IF installer.nameArg # <<>> THEN installer.nameArg ELSE env
           prompted == stripSpaces(first) = <<>>
           name == IF ~prompted THEN first ELSE IF eof THEN <<>> ELSE typed
       IN InstallStep(IF prompted /\ tty /\ eof THEN fail(installer)
                      ELSE IF stripSpaces(name) = <<>>
                      THEN fail(echo(installer, "Plugin name cannot be empty. Provide with -n \"Name\" or via prompt."))
                      ELSE [installer EXCEPT !.name = name, !.pc = "preflight"])

\* install.sh 53-63
Preflight ==
  /\ installer.pc = "preflight"
  /\ \E exists \in BOOLEAN :
       InstallStep(IF exists
                   THEN fail(echo(echo(installer, "Destination already exists"),
                                  "   Choose a different name with -n or remove the existing directory."))
                   ELSE [installer EXCEPT !.pc = "clone"])

\* install.sh 65-74; the clone holds manifest.json and package.json or not
Clone ==
  /\ installer.pc = "clone"
  /\ \E ok \in BOOLEAN, files \in [manifest : BOOLEAN, package : BOOLEAN] :
       LET R1 == echo(installer, "Cloning boilerplate...")
       IN InstallStep(IF ~ok THEN fail(echo(R1, "Failed to clone repository."))
                      ELSE [R1 EXCEPT !.clone = files, !.pc = "generate"])

\* install.sh 76-77 and create-plugin.sh 12-21
Generate ==
  /\ installer.pc = "generate"
  /\ LET R1 == echo(echo(echo(installer, "Generating plugin project"),
                         "Creating Figma plugin"), "Target directory")
     IN InstallStep(IF installer.name \in CloneDirs
                    THEN fail(echo(R1, "Directory already exists!"))
                    ELSE [R1 EXCEPT !.pc = "copy"])

\* create-plugin.sh 23-41: rsync may fail, the cp fallback may not
Copy ==
  /\ installer.pc = "copy"
  /\ \E rsync \in BOOLEAN, ok \in BOOLEAN :
       LET R1 == echo(installer, "Copying boilerplate files...")
       IN InstallStep(IF rsync /\ ~ok THEN fail(R1)
                      ELSE [R1 EXCEPT !.project = installer.clone, !.pc = "configure"])

\* create-plugin.sh 43-64: sed fails on a file that does not exist
Configure ==
  /\ installer.pc = "configure"
  /\ \E sed \in BOOLEAN :
       LET R1 == echo(installer, "Updating plugin configuration...")
       IN InstallStep(IF sed /\ (~installer.project.manifest \/ ~installer.project.package)
                      THEN fail(R1)
                      ELSE [R1 EXCEPT !.pc = "npm"])

\* create-plugin.sh 66-75: npm was found by install.sh
NpmInstall ==
  /\ installer.pc = "npm"
  /\ \E installed \in BOOLEAN, built \in BOOLEAN :
       LET R1 == echo(installer, "Installing dependencies...")
           R2 == echo(R1, "Building plugin...")
       IN InstallStep(IF ~installed THEN fail(R1)
                      ELSE IF ~built \/ ~installer.project.package THEN fail(R2)
                      ELSE [R2 EXCEPT !.pc = "created"])

CreatedLines ==
  << "", "Plugin created successfully!", "", "Next steps:", "   cd", "   npm run dev          # Start development mode",
     "", "To use in Figma:", "   1. Open Figma Desktop App",
     "   2. Go to Plugins -> Development -> Import plugin from manifest",
     "   3. Select the manifest.json file from this directory",
     "   4. Run your plugin from the Plugins menu", "",
     "Documentation: https://www.figma.com/plugin-docs/", "Plugin ideas: Check out EXAMPLES.md", "",
     "Happy plugin development!" >>

\* create-plugin.sh 79-95
Created ==
  /\ installer.pc = "created"
  /\ InstallStep([installer EXCEPT !.printed = installer.printed \o CreatedLines, !.pc = "move"])

\* install.sh 79-90
Move ==
  /\ installer.pc = "move"
  /\ \E ok \in BOOLEAN :
       LET R1 == echo(installer, "Moving project to")
       IN InstallStep(IF ~ok
                      THEN fail(echo(R1, "Failed to move generated project into destination folder."))
                      ELSE [R1 EXCEPT !.dest = installer.project, !.pc = "verify"])

\* install.sh 92-96
Verify ==
  /\ installer.pc = "verify"
  /\ InstallStep(IF ~installer.dest.manifest \/ ~installer.dest.package
                 THEN fail(echo(installer, "Setup incomplete. Required files missing"))
                 ELSE [installer EXCEPT !.checked = TRUE, !.pc = "success"])

SuccessLines ==
  << "Plugin created successfully at", "To open in your current Cursor workspace:",
     "   File -> Add Folder to Workspace -> Select", "", "   Or open in a new window:", "   cd && cursor ." >>

\* install.sh 98-105
Success ==
  /\ installer.pc = "success"
  /\ InstallStep([installer EXCEPT !.printed = installer.printed \o SuccessLines,
                                   !.exit = "ok", !.pc = "done"])

NextInstall ==
  \/ ParseArgs \/ CheckPrerequisites \/ DetermineName \/ Preflight \/ Clone \/ Generate
  \/ Copy \/ Configure \/ NpmInstall \/ Created \/ Move \/ Verify \/ Success

SpecInstall == Init /\ [][NextInstall]_vars

(***************************************************************************)
(* Properties of the installer.                                            *)
(***************************************************************************)
\* A line "Plugin ... created successfully ..."
IsSuccessMessage(line) ==
  line \in { "Plugin created successfully!", "Plugin created successfully at" }

SuccessPrinted(R) == \E i \in 1..Len(R.printed) : IsSuccessMessage(R.printed[i])

\* C20: in every run of install.sh a success message is printed only after
\* the check that manifest.json and package.json are in the destination
\* has passed, and a run that ends in failure has printed none.
C20_SuccessAfterVerification ==
  /\ SuccessPrinted(installer) => installer.checked
  /\ installer.exit = "fail" => ~SuccessPrinted(installer)


\* The selects of the document that are open
OpenSelects(D) == { s \in SelectIds : D.roots[s].isOpen }

\* C21: once every zero-delay callback of openSelect has run, the document
\* click and keydown handlers are registered if and only if at least one
\* select is open.
C21_ListenerLifecycle ==
  doc.timers = 0 =>
    /\ doc.onClick <=> OpenSelects(doc) # {}
    /\ doc.onKeydown <=> OpenSelects(doc) # {}

\* C24: a disabled select is not open and its list is hidden.
C24_DisabledNeverOpen ==
  \A s \in BuiltSelects(doc) :
    doc.roots[s].disabled => (~doc.roots[s].isOpen /\ doc.roots[s].display = "none")


\* C22: a click delivered to a trigger activates its tab if and only if the
\* trigger is not disabled at that moment, whatever setTabDisabled calls
\* came before; so a trigger created disabled and enabled since activates
\* its tab.
C22_ClickFollowsDisabled ==
  tabs.last.name = "click" =>
    LET tr == tabs.triggers[tabs.last.target]
    IN ~tr.disabled <=> Activated(tabs, tr.value)

\* The tabchange event a call setActiveTab(root, v) made from active value
\* `before` has to dispatch: v and `before` in its detail, and the state,
\* the triggers and the panels already updated when the listeners run
TabChangeOf(T, v, before) ==
  [value |-> v, previousValue |-> before,
   seen |-> [activeTab |-> v,
             selected |-> {v} \cap TriggerValues(T),
             shown |-> {v} \cap PanelValues(T)]]

\* The listeners of event e found the state set to its value, and no
\* trigger selected and no panel shown but those of its value
AfterUpdate(e) ==
  /\ e.seen.activeTab = e.value
  /\ e.seen.selected \subseteq { e.value }
  /\ e.seen.shown \subseteq { e.value }

\* The operations that never reach setActiveTab
NoActivation(T) ==
  \/ T.last.name \in { "none", "new", "addContent", "appendTo", "setTabDisabled" }
  \/ T.last.name \in { "addTrigger", "addTab" } /\ (Len(T.triggers) > 1 \/ T.last.before # "")
  \/ T.last.name = "keydown" /\ ~IsTabKey(T.last.key)

\* C23: a call of setActiveTab(root, v) dispatches exactly one tabchange
\* event, after the state, the triggers and the panels are updated, with
\* detail.value v and detail.previousValue the value active before the
\* call; an operation that does not call setActiveTab dispatches none.
C23_TabChangeNotification ==
  /\ tabs.last.name = "setActiveTab"
       => tabs.events = << TabChangeOf(tabs, tabs.last.key, tabs.last.before) >>
  /\ tabs.events # <<>>
       => /\ Len(tabs.events) = 1
          /\ tabs.events[1].value = tabs.activeTab
          /\ tabs.events[1].previousValue = tabs.last.before
          /\ AfterUpdate(tabs.events[1])
  /\ NoActivation(tabs) => tabs.events = <<>>

\* A setActiveTab call that changed the active tab of a component with
\* panels, and whose event the listeners received
C23_Witness ==
  /\ tabs.last.name = "setActiveTab"
  /\ tabs.last.before # "" /\ tabs.last.before # tabs.last.key
  /\ Len(tabs.panels) = MaxTabs
  /\ Len(tabs.events) = 1
  /\ tabs.events[1].seen.shown = { tabs.last.key }


(***************************************************************************)
(* The two copies of the resolver.                                         *)
(***************************************************************************)
\* C25: for every argument list, the cn of the standalone bundle returns
\* what the cn of lib/utils returns.
C25_CopiesAgree ==
  /\ op = "cn" => out = cnStandalone(args)
  /\ op = "cnStandalone" => out = cn(args)

====
